---- MODULE Spec2Model ----
(***************************************************************************)
(* State-machine model of the stock data collection / analysis programs:   *)
(*   data/stock_real_data.py            StockAnalyzer (collector + engine) *)
(*   indicator_analysis/multi_factor_alert.py      MultiFactorAlertSystem  *)
(*   indicator_analysis/stock_analysis_decision.py StockDecisionAnalyzer   *)
(*                                                                         *)
(* Numbers.  Prices are whole currency units.  Every float the program     *)
(* computes is kept in fixed point with SCALE steps per unit (the four     *)
(* decimals of the DECIMAL(10,4) indicator columns); a quotient is a floor *)
(* division.  NaN / None / SQL NULL is the empty tuple <<>>, a defined     *)
(* value v is <<v>>, for the columns that can be undefined.                *)
(***************************************************************************)
EXTENDS Integers, Sequences, FiniteSets, TLC

\* ------------------------------------------------------------------ bounds
MaxMoves == 1        \* quote changes the market makes per run
MaxRequests == 2     \* calls of the Sina source per run
MaxTicks == 16       \* samples fed to the engine in the equivalence runs
MaxTurns == 1        \* changes of direction of the price within such a run
MaxDays == 1         \* midnights the clock passes
MaxEdits == 1        \* edits of the configuration file
MaxAlerts == 4       \* alerts the alert system raises per run
MaxCycles == 1       \* cycles of the decision monitor per run
BasePrice == 20      \* first price of every generated series
ShortHist == 5       \* rows of a history too short for any window
MaxScans == 2               \* correlator cycles
MaxNews == 4                \* news items pushed to stock:hot_news
MaxRuns == 2                \* runs of predict_all_stocks
MaxIssueDays == 1           \* calendar days the predictor runs on, after the first
MaxChecks == 2              \* analyze_stock runs of the alert system
MaxHours == 2               \* hours that pass while the alert system runs
MaxArrivals == 1            \* samples stored while the alert system runs
MaxSleeps == 2              \* sleeps of the decision monitor outside the sessions
MaxCalls == 3               \* calls of save_buy_signal by the pool's workers
MaxNoticeCycles == 3        \* analysis cycles of the monitor loop

\* ------------------------------------------------------- program constants
SCALE == 10000             \* DECIMAL(10, 4)
short_span == 12
long_span == 26
signal_span == 9
rsi_period == 14
bb_period == 20
MinSamples == 30           \* len(df) >= 30
ColdLimit == 500           \* LIMIT 500
HistLimit == 100           \* LIMIT 100
SeedKeep == 30             \* prices[-30:]
PriceCap == 100            \* len(state['prices']) > 100
table_creation_cooldown == 1
FeedKeep == 100            \* ltrim 0 99
RowLimit == 100            \* LIMIT 100 of the decision analyzer's query
macd_hist_positive == 0
rsi_buy == 50
rsi_overbought == 70
rsi_oversold == 30
buy_threshold == 60
base_score == 50           \* score = 50
max_stocks == 5

Stocks == {"A", "B"}
StockOrder == <<"A", "B">>

\* ----------------------------------------------------------- small helpers
NaN == <<>>
IsNaN(x) == x = <<>>
Some(v) == <<v>>
Val(x) == x[1]

\* the only element of a one-element set: binds a value that is computed once
Only(S) == CHOOSE x \in S : TRUE

\* the tuple <<f[1], ..., f[n]>>
RECURSIVE TupFrom(_, _, _)
TupFrom(f, i, n) == IF i > n THEN <<>> ELSE <<f[i]>> \o TupFrom(f, i + 1, n)
Tup(f, n) == TupFrom(f, 1, n)

Min2(a, b) == IF a <= b THEN a ELSE b
Max2(a, b) == IF a >= b THEN a ELSE b
Abs(a) == IF a >= 0 THEN a ELSE 0 - a

RECURSIVE SumSeq(_)
SumSeq(xs) == IF xs = <<>> THEN 0 ELSE xs[1] + SumSeq(Tail(xs))

RECURSIVE SumSq(_)
SumSq(xs) == IF xs = <<>> THEN 0 ELSE xs[1] * xs[1] + SumSq(Tail(xs))

\* xs[-n:] of Python: the last n elements, or all of them when there are fewer
LastN(xs, n) == IF Len(xs) <= n THEN xs ELSE SubSeq(xs, Len(xs) - n + 1, Len(xs))

\* float(price)
FP(p) == p * SCALE

RECURSIVE IsqrtBin(_, _, _)
IsqrtBin(x, lo, hi) ==
    IF lo >= hi THEN lo
    ELSE LET mid == (lo + hi + 1) \div 2
         IN IF mid * mid <= x THEN IsqrtBin(x, mid, hi) ELSE IsqrtBin(x, lo, mid - 1)

\* floor of the square root
Isqrt(x) == IsqrtBin(x, 0, 46340)

\* n * sum(x^2) - sum(x)^2 = n^2 * population variance, exact on whole prices
Dev2(xs) == Len(xs) * SumSq(xs) - SumSeq(xs) * SumSeq(xs)

\* np.mean of whole prices
MeanOf(xs) == (SumSeq(xs) * SCALE) \div Len(xs)

\* np.mean of fixed-point values
MeanFP(vs) == SumSeq(vs) \div Len(vs)

\* np.std: population standard deviation (ddof = 0)
StdPop(xs) == Isqrt((Dev2(xs) * SCALE) \div (Len(xs) * Len(xs))) * Isqrt(SCALE)

\* pandas rolling(...).std(): sample standard deviation (ddof = 1)
StdSample(xs) == Isqrt((Dev2(xs) * SCALE) \div (Len(xs) * (Len(xs) - 1))) * Isqrt(SCALE)

\* one step of ewm(span, adjust=False): cur * alpha + prev * (1 - alpha), alpha = 2 / (span + 1)
EmaStep(prev, cur, span) == (2 * cur + (span - 1) * prev) \div (span + 1)

\* Series.ewm(span=span, adjust=False).mean() over fixed-point values
RECURSIVE EwmSeq(_, _, _)
EwmSeq(vs, span, acc) ==
    IF Len(acc) = Len(vs) THEN acc
    ELSE LET i == Len(acc) + 1
         IN EwmSeq(vs, span, Append(acc, IF i = 1 THEN vs[1] ELSE EmaStep(acc[i - 1], vs[i], span)))

Ewm(vs, span) == EwmSeq(vs, span, <<>>)

\* delta.clip(lower=0) and -delta.clip(upper=0) of one difference
GainOf(d) == IF d > 0 THEN d ELSE 0
LossOf(d) == IF d < 0 THEN 0 - d ELSE 0

\* 100 - 100 / (1 + avg_gain / avg_loss) in floats: a zero loss with a gain is
\* a division to infinity (RSI 100), zero over zero is NaN
RsiOf(g, l) ==
    IF l = 0 THEN (IF g = 0 THEN NaN ELSE Some(100 * SCALE))
    ELSE Some(100 * ((SCALE * g) \div (g + l)))

\* gain.rolling(window).mean() at row i: NaN until window differences exist
RollGain(xs, i, w) ==
    IF i < w + 1 THEN NaN
    ELSE Some((SumSeq([j \in 1..w |-> GainOf(xs[i - w + j] - xs[i - w + j - 1])]) * SCALE) \div w)

RollLoss(xs, i, w) ==
    IF i < w + 1 THEN NaN
    ELSE Some((SumSeq([j \in 1..w |-> LossOf(xs[i - w + j] - xs[i - w + j - 1])]) * SCALE) \div w)

\* Series.rolling(window=w).mean() / .std() at row i
RollMean(xs, i, w) == IF i < w THEN NaN ELSE Some(MeanOf(SubSeq(xs, i - w + 1, i)))
RollStd(xs, i, w) == IF i < w THEN NaN ELSE Some(StdSample(SubSeq(xs, i - w + 1, i)))

\* DECIMAL(10, 2) column: two decimals are kept
Dec2(x) == ((x + (SCALE \div 200)) \div (SCALE \div 100)) * (SCALE \div 100)

\* ------------------------------------------------ cold path: full recompute
\* df.fillna(method='ffill').fillna(method='bfill') of one column, at row i
RECURSIVE FfillAt(_, _)
FfillAt(col, i) == IF i = 0 THEN NaN ELSE IF ~IsNaN(col[i]) THEN col[i] ELSE FfillAt(col, i - 1)

RECURSIVE BfillAt(_, _)
BfillAt(col, i) == IF i > Len(col) THEN NaN ELSE IF ~IsNaN(col[i]) THEN col[i] ELSE BfillAt(col, i + 1)

FillAt(col, i) == IF ~IsNaN(FfillAt(col, i)) THEN FfillAt(col, i) ELSE BfillAt(col, i)

\* The indicator columns the cold path computes over the prices xs (oldest first),
\* before the fill.  MACD, Signal and the EMAs are defined on every row.
ColdColsOf(xs, se, le, macd, sig, ag, al, mean, std) ==
    LET n == Len(xs)
    IN [short_ema |-> se, long_ema |-> le, MACD |-> macd, Signal |-> sig,
        MACD_Hist |-> Tup([i \in 1..n |-> macd[i] - sig[i]], n),
        avg_gain |-> ag, avg_loss |-> al, rolling_mean |-> mean, rolling_std |-> std,
        RSI |-> Tup([i \in 1..n |-> IF IsNaN(ag[i]) THEN NaN ELSE RsiOf(Val(ag[i]), Val(al[i]))], n),
        Upper_Band |-> Tup([i \in 1..n |-> IF IsNaN(mean[i]) THEN NaN
                                           ELSE Some(Val(mean[i]) + Val(std[i]) * 2)], n),
        Lower_Band |-> Tup([i \in 1..n |-> IF IsNaN(mean[i]) THEN NaN
                                           ELSE Some(Val(mean[i]) - Val(std[i]) * 2)], n),
        MA5 |-> Tup([i \in 1..n |-> RollMean(xs, i, 5)], n),
        MA10 |-> Tup([i \in 1..n |-> RollMean(xs, i, 10)], n)]

ColdColsEma(xs, se, le) ==
    Only({ Only({ ColdColsOf(xs, se, le, macd, sig,
                             Tup([i \in 1..Len(xs) |-> RollGain(xs, i, rsi_period)], Len(xs)),
                             Tup([i \in 1..Len(xs) |-> RollLoss(xs, i, rsi_period)], Len(xs)),
                             Tup([i \in 1..Len(xs) |-> RollMean(xs, i, bb_period)], Len(xs)),
                             Tup([i \in 1..Len(xs) |-> RollStd(xs, i, bb_period)], Len(xs)))
                  : sig \in {Ewm(macd, signal_span)} })
           : macd \in {Tup([i \in 1..Len(xs) |-> (se[i] - le[i]) * 2], Len(xs))} })

ColdColsFp(xs, fp) ==
    Only({ ColdColsEma(xs, se, le) : se \in {Ewm(fp, short_span)}, le \in {Ewm(fp, long_span)} })

ColdCols(xs) ==
    Only({ ColdColsFp(xs, fp) : fp \in {Tup([i \in 1..Len(xs) |-> FP(xs[i])], Len(xs))} })

\* The columns of row i after the fill (NaN only where the whole column is NaN)
ColdFilled(c, i) ==
    [MACD |-> c.MACD[i], Signal |-> c.Signal[i], MACD_Hist |-> c.MACD_Hist[i],
     RSI |-> FillAt(c.RSI, i), Upper_Band |-> FillAt(c.Upper_Band, i),
     Lower_Band |-> FillAt(c.Lower_Band, i), MA5 |-> FillAt(c.MA5, i), MA10 |-> FillAt(c.MA10, i)]

\* the row the cold path inserts for sample r of the realtime table
ColdRow(c, i, r) ==
    LET f == ColdFilled(c, i)
    IN [time |-> r.time, price |-> Dec2(FP(r.price)), MACD |-> f.MACD, Signal |-> f.Signal,
        MACD_Hist |-> f.MACD_Hist, RSI |-> Val(f.RSI), Upper_Band |-> Dec2(Val(f.Upper_Band)),
        Lower_Band |-> Dec2(Val(f.Lower_Band)), MA5 |-> Some(Dec2(Val(f.MA5))),
        MA10 |-> Some(Dec2(Val(f.MA10))), date |-> r.date]

\* rows with a NaN column are skipped
ColdRowOk(c, i) ==
    LET f == ColdFilled(c, i)
    IN ~IsNaN(f.RSI) /\ ~IsNaN(f.Upper_Band) /\ ~IsNaN(f.Lower_Band) /\ ~IsNaN(f.MA5) /\ ~IsNaN(f.MA10)

RECURSIVE ColdRowsFrom(_, _, _)
ColdRowsFrom(c, rows, i) ==
    IF i > Len(rows) THEN <<>>
    ELSE (IF ColdRowOk(c, i) THEN <<ColdRow(c, i, rows[i])>> ELSE <<>>) \o ColdRowsFrom(c, rows, i + 1)

\* the state the cold path seeds from the last row of its frame
ColdState(c, rows, now) ==
    LET n == Len(rows)
        last == rows[n]
        f == ColdFilled(c, n)
    IN [prices |-> <<last.price>>, dates |-> <<last.date>>, last_price |-> FP(last.price),
        short_ema |-> c.short_ema[n], long_ema |-> c.long_ema[n], signal |-> f.Signal,
        avg_gain |-> IF ~IsNaN(c.avg_gain[n]) THEN Val(c.avg_gain[n]) ELSE 0,
        avg_loss |-> IF ~IsNaN(c.avg_loss[n]) THEN Val(c.avg_loss[n]) ELSE 0,
        sma20 |-> IF ~IsNaN(c.rolling_mean[n]) THEN Val(c.rolling_mean[n]) ELSE 0,
        std20 |-> IF ~IsNaN(c.rolling_std[n]) THEN Val(c.rolling_std[n]) ELSE 0,
        ma5_values |-> <<FP(last.price)>>, ma10_values |-> <<FP(last.price)>>,
        last_update |-> now]

\* ------------------------------------------- state seeded from daily history
\* initialize_technical_indicators_state over the history rows h (oldest first,
\* at least one row): NaN scalars become 0.0
HistoryStateOf(h, xs, c, now) ==
    LET n == Len(h)
        tail5 == LastN(c.MA5, 5)
        tail10 == LastN(c.MA10, 10)
        zero(v) == IF ~IsNaN(v) THEN Val(v) ELSE 0
    IN [prices |-> LastN(xs, SeedKeep),
        dates |-> LastN(Tup([i \in 1..n |-> h[i].date], n), SeedKeep),
        last_price |-> FP(xs[n]),
        short_ema |-> c.short_ema[n], long_ema |-> c.long_ema[n], signal |-> c.Signal[n],
        avg_gain |-> zero(c.avg_gain[n]), avg_loss |-> zero(c.avg_loss[n]),
        sma20 |-> zero(c.rolling_mean[n]), std20 |-> zero(c.rolling_std[n]),
        ma5_values |-> Tup([i \in 1..Len(tail5) |-> zero(tail5[i])], Len(tail5)),
        ma10_values |-> Tup([i \in 1..Len(tail10) |-> zero(tail10[i])], Len(tail10)),
        last_update |-> now]

HistoryState(h, now) ==
    Only({ Only({ HistoryStateOf(h, xs, c, now) : c \in {ColdCols(xs)} })
           : xs \in {Tup([i \in 1..Len(h) |-> h[i].close], Len(h))} })

\* ------------------------------------------- warm path: incremental update
\* the state after one sample and the values of its snapshot
WarmUpdate(st, current_price, date_val, now) ==
    LET cp == FP(current_price)
        prices1 == Append(st.prices, current_price)
        dates1 == Append(st.dates, date_val)
        prices == IF Len(prices1) > PriceCap THEN Tail(prices1) ELSE prices1
        dates == IF Len(prices1) > PriceCap THEN Tail(dates1) ELSE dates1
        new_short_ema == EmaStep(st.short_ema, cp, short_span)
        new_long_ema == EmaStep(st.long_ema, cp, long_span)
        new_macd == (new_short_ema - new_long_ema) * 2
        new_signal == EmaStep(st.signal, new_macd, signal_span)
        price_change == cp - st.last_price
        current_gain == IF price_change > 0 THEN price_change ELSE 0
        current_loss == IF price_change > 0 THEN 0 ELSE 0 - price_change
        new_avg_gain == (st.avg_gain * 13 + current_gain) \div 14
        new_avg_loss == (st.avg_loss * 13 + current_loss) \div 14
        rsi == IF new_avg_loss = 0 THEN 100 * SCALE
               ELSE 100 * ((SCALE * new_avg_gain) \div (new_avg_gain + new_avg_loss))
        window == LastN(prices, bb_period)
        full == Len(window) >= bb_period
        sma20 == IF full THEN MeanOf(window) ELSE st.sma20
        std20 == IF full THEN StdPop(window) ELSE st.std20
        ma5a == Append(st.ma5_values, cp)
        ma10a == Append(st.ma10_values, cp)
        ma5v == IF Len(ma5a) > 5 THEN Tail(ma5a) ELSE ma5a
        ma10v == IF Len(ma10a) > 10 THEN Tail(ma10a) ELSE ma10a
    IN [st |-> [prices |-> prices, dates |-> dates, last_price |-> cp,
                short_ema |-> new_short_ema, long_ema |-> new_long_ema, signal |-> new_signal,
                avg_gain |-> new_avg_gain, avg_loss |-> new_avg_loss,
                sma20 |-> sma20, std20 |-> std20,
                ma5_values |-> ma5v, ma10_values |-> ma10v, last_update |-> now],
        MACD |-> new_macd, Signal |-> new_signal, MACD_Hist |-> new_macd - new_signal,
        RSI |-> rsi, Upper_Band |-> sma20 + std20 * 2, Lower_Band |-> sma20 - std20 * 2,
        MA5 |-> IF Len(ma5v) = 5 THEN Some(MeanFP(ma5v)) ELSE NaN,
        MA10 |-> IF Len(ma10v) = 10 THEN Some(MeanFP(ma10v)) ELSE NaN]

\* the row the warm path stores: the DECIMAL(10,2) columns keep two decimals
WarmRow(w, time_val, current_price, date_val) ==
    [time |-> time_val, price |-> Dec2(FP(current_price)), MACD |-> w.MACD, Signal |-> w.Signal,
     MACD_Hist |-> w.MACD_Hist, RSI |-> w.RSI, Upper_Band |-> Dec2(w.Upper_Band),
     Lower_Band |-> Dec2(w.Lower_Band),
     MA5 |-> IF IsNaN(w.MA5) THEN NaN ELSE Some(Dec2(Val(w.MA5))),
     MA10 |-> IF IsNaN(w.MA10) THEN NaN ELSE Some(Dec2(Val(w.MA10))), date |-> date_val]

\* ------------------------------------------------------------- the state
VARIABLES
    clock,                  \* wall clock: [day, wd (0 = Monday), slot (index in TimesOfDay)]
    quote,                  \* the quote the Sina source returns, per instrument
    moves,                  \* quote changes so far
    requests,               \* calls of sina_source.get_stock_data so far
    config_file,            \* config.json on disk: [stocks, mtime]
    edits,                  \* edits of config.json so far
    config,                 \* StockAnalyzer.config: the stocks of the loaded configuration
    config_last_modified,   \* StockAnalyzer.config_last_modified
    since_config_update,    \* time.time() - last_config_update_time, in seconds, capped at the cooldown
    processed_stocks,       \* StockAnalyzer.processed_stocks
    tech_indicators_state,  \* StockAnalyzer.tech_indicators_state: dict, instrument -> state
    last_init_date,         \* StockAnalyzer.last_init_date (None = <<>>)
    rt,                     \* table stock_<code>_realtime, rows ordered by time
    hist,                   \* table <name>_history, rows ordered by date
    tech,                   \* table realtime_technical_<name>: [exists, rows ordered by time]
    reload,                 \* reload_config_if_changed: [pc, previous]
    collect,                \* collect_all_data: [stocks, i]
    monitor,                \* StockAnalyzer.realtime_monitor: [pc, stocks, i]
    \* one instrument's engine fed sample by sample
    e_series,               \* every sample so far, oldest first: the seeding ones, then the ticks
    e_seed,                 \* how the state was seeded: "none", "cold", "history"
    e_state,                \* tech_indicators_state[code] of the instrument (<<>> = missing)
    e_snap,                 \* the snapshot of the last incremental update (<<>> = none yet)
    e_ticks,                \* ticks fed so far
    e_run,                  \* length of the current run of non-decreasing ticks
    e_dir,                  \* price change of the last tick
    e_turns,                \* changes of the price change so far
    \* MultiFactorAlertSystem.save_alert, run by several processes
    alert_log,              \* table multi_factor_alerts: alert ids in insertion order
    feed,                   \* Redis list stock:alerts:realtime, head first
    alerts,                 \* alerts raised so far
    writer,                 \* per process: [pc, alert], the position inside save_alert
    \* StockDecisionAnalyzer.realtime_monitor
    decision,               \* [pc, todo, cycle]: the submitted analyses not yet completed
    d_inputs,               \* per instrument, what its analysis of this cycle read
    d_results,              \* per instrument, what analyze_stock_threaded returned (<<>> = not yet)
    trading_signals,        \* table trading_signals: rows not bought
    last_recommendations,   \* the monitor's last_recommendations
    \* PriceNewsCorrelator
    c_columns,              \* the realtime tables have the columns the detector's query names
    c_rows,                 \* per instrument, the rows of its realtime table, newest first
    hot_news,               \* Redis list stock:hot_news, head first
    thresholds,             \* PriceNewsCorrelator.thresholds
    price_anomalies,        \* table price_anomalies, in insertion order
    price_news_correlation, \* table price_news_correlation, in insertion order
    c_found,                \* the last detect_price_anomalies call: its result and threshold (<<>> = no call yet)
    scans,                  \* analyze_stock calls so far
    \* GPRStockPredictor
    g_history,              \* per instrument, its history table inside the training window
    stock_price_predictions, \* table stock_price_predictions, in insertion order
    g_today,                \* datetime.now().date()
    g_loop,                 \* predict_all_stocks: [pc, i]
    g_last,                 \* the last turn of the loop: what it predicted and did (<<>> = none yet)
    g_runs,                 \* runs of predict_all_stocks so far
    \* MultiFactorAlertSystem.analyze_stock and the stores its checks read
    m_columns,              \* the realtime tables have the columns check_price_alerts names
    m_realtime,             \* per instrument, the rows of its realtime table, newest first
    m_technical,            \* per instrument, table realtime_technical_<name>: [exists, rows newest first]
    m_sentiment,            \* table price_news_correlation as the sentiment check reads it, newest first
    m_predictions,          \* table stock_price_predictions as the alert system reads it: [exists, rows]
    m_now,                  \* NOW() of the database server, in hours
    m_runs,                 \* per instrument, its last two analyze_stock runs: [inputs, now, alerts]
    m_checks,               \* analyze_stock runs so far
    m_arrivals,             \* realtime rows that arrived so far
    \* the three analyses of one decision and calculate_comprehensive_score
    s_stage,                \* which analysis runs next
    s_adj,                  \* per analysis, the sum of the adjustments its rules made (None = no analysis)
    s_sub,                  \* the results of the three analyses
    s_final,                \* the result of calculate_comprehensive_score (<<>> = not yet)
    \* the decision monitor outside the trading sessions
    w_now,                  \* datetime.now(): [wd, tod in half seconds]
    w_wait,                 \* what get_next_trading_time_wait returned in this turn (<<>> = not called)
    w_sleeps,               \* sleeps of the monitor so far
    \* save_buy_signal, run by the workers of the thread pool
    sig_worker,             \* per worker: [pc, call, seen], its position inside save_buy_signal
    sig_calls,              \* calls of save_buy_signal so far
    sig_last,               \* the last call that returned: [call, seen, before, returned, branch] (<<>> = none yet)
    \* StockDecisionAnalyzer.realtime_monitor, its new-buy-signal notices
    n_monitor,              \* the loop: pc, the futures not yet handled, the cycle
    n_history,              \* per cycle, the stocks whose result was can_buy
    n_notices,              \* the notices printed: <<stock, cycle>>
    \* NewsAnalysisReceiver and the Redis keys it reads and writes
    r_hot_news,             \* stock:hot_news as the receiver reads it: the hash of each item, newest first
    all_analyses,           \* stock:news_all_analyses: the hashes that have an analysis
    processed_hashes,       \* stock:news_indicators_processed_hashes
    retry_store,            \* stock:news_indicators_retry_news: hash -> retry count
    r_main                  \* main's loop: "run" before a pass, "sleep" after it

sysVars == <<clock, quote, moves, requests, config_file, edits, config, config_last_modified,
             since_config_update, processed_stocks, tech_indicators_state, last_init_date,
             rt, hist, tech, reload, collect, monitor>>
engVars == <<e_series, e_seed, e_state, e_snap, e_ticks, e_run, e_dir, e_turns>>

feedVars == <<alert_log, feed, alerts, writer>>
decVars == <<decision, d_inputs, d_results, trading_signals, last_recommendations>>
corVars == <<c_columns, c_rows, hot_news, thresholds, price_anomalies, price_news_correlation,
             c_found, scans>>
gprVars == <<g_history, stock_price_predictions, g_today, g_loop, g_last, g_runs>>
almVars == <<m_columns, m_realtime, m_technical, m_sentiment, m_predictions, m_now, m_runs, m_checks, m_arrivals>>
scoVars == <<s_stage, s_adj, s_sub, s_final>>
waiVars == <<w_now, w_wait, w_sleeps>>
sigVars == <<sig_worker, sig_calls, sig_last>>
notVars == <<n_monitor, n_history, n_notices>>
rtyVars == <<r_hot_news, all_analyses, processed_hashes, retry_store, r_main>>

\* what the steps of each program leave alone
offSys == <<engVars, feedVars, decVars, corVars, gprVars, almVars, scoVars, waiVars, sigVars, notVars, rtyVars>>
offEng == <<sysVars, feedVars, decVars, corVars, gprVars, almVars, scoVars, waiVars, sigVars, notVars, rtyVars>>
offFeed == <<sysVars, engVars, decVars, corVars, gprVars, almVars, scoVars, waiVars, sigVars, notVars, rtyVars>>
offDec == <<sysVars, engVars, feedVars, corVars, gprVars, almVars, scoVars, waiVars, sigVars, notVars, rtyVars>>
offCor == <<sysVars, engVars, feedVars, decVars, gprVars, almVars, scoVars, waiVars, sigVars, notVars, rtyVars>>
offGpr == <<sysVars, engVars, feedVars, decVars, corVars, almVars, scoVars, waiVars, sigVars, notVars, rtyVars>>
offAlm == <<sysVars, engVars, feedVars, decVars, corVars, gprVars, scoVars, waiVars, sigVars, notVars, rtyVars>>
offAlmSave == <<sysVars, engVars, decVars, corVars, gprVars, scoVars, waiVars, sigVars, notVars, rtyVars>>
offSco == <<sysVars, engVars, feedVars, decVars, corVars, gprVars, almVars, waiVars, sigVars, notVars, rtyVars>>
offWai == <<sysVars, engVars, feedVars, decVars, corVars, gprVars, almVars, scoVars, sigVars, notVars, rtyVars>>
offSig == <<sysVars, engVars, feedVars, decVars, corVars, gprVars, almVars, scoVars, waiVars, notVars, rtyVars>>
offSigSave == <<sysVars, engVars, feedVars, corVars, gprVars, almVars, scoVars, waiVars, notVars, rtyVars>>
offNot == <<sysVars, engVars, feedVars, corVars, gprVars, almVars, scoVars, waiVars, sigVars, rtyVars>>
offRty == <<sysVars, engVars, feedVars, decVars, corVars, gprVars, almVars, scoVars, waiVars, sigVars, notVars>>

\* representative times of day, in minutes: 09:20, 10:00, 12:00, 15:30
TimesOfDay == <<560, 600, 720, 930>>
Tod(c) == TimesOfDay[c.slot]

\* is_trading_time: 09:30 <= t <= 11:30 or 13:00 <= t <= 15:00
is_trading_time(t) == (570 <= t /\ t <= 690) \/ (780 <= t /\ t <= 900)

\* the list get_stocks_from_config returns for a set of configured stocks
RECURSIVE ListOf(_, _)
ListOf(set, i) ==
    IF i > Len(StockOrder) THEN <<>>
    ELSE (IF StockOrder[i] \in set THEN <<StockOrder[i]>> ELSE <<>>) \o ListOf(set, i + 1)

get_stocks_from_config == ListOf(config_file.stocks, 1)

\* should_skip_stock_processing: reads config.json again on every call
should_skip_stock_processing(s, processed) ==
    IF s \notin config_file.stocks THEN TRUE
    ELSE LET cooling_down == since_config_update < table_creation_cooldown
             is_processed == s \in processed
         IN cooling_down /\ ~is_processed

\* generated inputs: a daily history of n closes, and n minute samples
RampHist(n, step) == [i \in 1..n |-> [date |-> i - n - 1, close |-> BasePrice + step * ((i - 1) \div 3)]]
ZigHist(n) == [i \in 1..n |-> [date |-> i - n - 1, close |-> BasePrice + (i % 2)]]
MinuteRows(n) == [i \in 1..n |-> [time |-> i - n, price |-> BasePrice + ((i % 4) \div 2), date |-> 0]]

HasTime(rows, t) == \E i \in 1..Len(rows) : rows[i].time = t

\* save_redis_to_mysql: the row is inserted unless its time is already stored
save_redis_to_mysql(rows, q) ==
    IF HasTime(rows, q.time) THEN rows
    ELSE Append(rows, [time |-> q.time, price |-> q.price, date |-> q.date])

\* initialize_technical_indicators_state(s): the new dict, unchanged when the
\* history table has no rows (returns False)
InitFromHistory(states, s, now) ==
    IF hist[s] = <<>> THEN states
    ELSE [k \in DOMAIN states \cup {s} |->
            IF k = s THEN HistoryState(LastN(hist[s], HistLimit), now) ELSE states[k]]

RECURSIVE InitAll(_, _, _)
InitAll(states, list, now) ==
    IF list = <<>> THEN states
    ELSE InitAll(InitFromHistory(states, list[1], now), Tail(list), now)

\* check_and_initialize_indicators: on a new day between 09:15 and 09:30 every
\* state is dropped and the configured stocks are seeded again
DailyInitDue(lid) == lid # Some(clock.day) /\ 555 <= Tod(clock) /\ Tod(clock) <= 570

\* a variant that re-seeds on the first update of a day at any time of day
check_and_initialize_any_time(d) ==
    IF d.last_init_date # Some(clock.day)
    THEN [d EXCEPT !.state = InitAll(<<>>, get_stocks_from_config, clock),
                   !.last_init_date = Some(clock.day)]
    ELSE d

check_and_initialize_indicators(d) ==
    IF DailyInitDue(d.last_init_date)
    THEN [d EXCEPT !.state = InitAll(<<>>, get_stocks_from_config, clock),
                   !.last_init_date = Some(clock.day)]
    ELSE d

\* the UPDATE (time already stored: every column but the date) or INSERT of a row
Upsert(rows, row) ==
    IF HasTime(rows, row.time)
    THEN [i \in 1..Len(rows) |-> IF rows[i].time = row.time
                                 THEN [row EXCEPT !.date = rows[i].date] ELSE rows[i]]
    ELSE Append(rows, row)

\* the cold path of calculate_realtime_technical_indicators: runs when the
\* indicator table is missing or empty; needs MinSamples realtime samples
ColdSeed(d, s, rows, c) ==
    [d EXCEPT !.tech[s] = [exists |-> TRUE, rows |-> ColdRowsFrom(c, rows, 1)],
              !.state = [k \in DOMAIN d.state \cup {s} |->
                           IF k = s THEN ColdState(c, rows, clock) ELSE d.state[k]]]

ColdPath(d, s) ==
    IF d.tech[s].exists /\ d.tech[s].rows # <<>> THEN d
    ELSE IF Len(d.rt[s]) >= MinSamples
         THEN Only({ Only({ ColdSeed(d, s, rows, c)
                            : c \in {ColdCols(Tup([i \in 1..Len(rows) |-> rows[i].price], Len(rows)))} })
                     : rows \in {SubSeq(d.rt[s], 1, Min2(ColdLimit, Len(d.rt[s])))} })
         ELSE [d EXCEPT !.tech[s] = [exists |-> TRUE, rows |-> <<>>]]

\* the warm path: one incremental update and the upsert of its snapshot
WarmPath(d, s, q) ==
    Only({ [d EXCEPT !.state[s] = w.st,
                     !.tech[s] = [exists |-> TRUE,
                                  rows |-> Upsert(d.tech[s].rows,
                                                  WarmRow(w, q.time, q.price, q.date))]]
           : w \in {WarmUpdate(d.state[s], q.price, q.date, clock)} })

\* the state is missing after the cold path: seed it from the daily history;
\* without a state the handler returns, with one it runs the warm path
SeedAndUpdate(d, s, q) ==
    IF s \in DOMAIN d.state THEN WarmPath(d, s, q)
    ELSE Only({ IF s \in DOMAIN st THEN WarmPath([d EXCEPT !.state = st], s, q) ELSE d
                : st \in {InitFromHistory(d.state, s, clock)} })

\* calculate_realtime_technical_indicators(s, stock_info)
calculate_realtime_technical_indicators(d0, s, q) ==
    IF should_skip_stock_processing(s, d0.processed) THEN d0
    ELSE Only({ Only({ SeedAndUpdate(d2, s, q) : d2 \in {ColdPath(d1, s)} })
                : d1 \in {IF d0.last_init_date # Some(clock.day)
                          THEN check_and_initialize_indicators(d0) ELSE d0} })

\* collect_realtime_data(s); got = the source returned a quote
collect_realtime_data(d0, s, got) ==
    IF should_skip_stock_processing(s, d0.processed) \/ ~got THEN d0
    ELSE Only({ [d2 EXCEPT !.processed = d2.processed \cup {s}]
                : d2 \in {calculate_realtime_technical_indicators(
                            [d0 EXCEPT !.rt[s] = save_redis_to_mysql(d0.rt[s], quote[s])],
                            s, quote[s])} })

\* the part of the state the tick handlers write
Cur == [rt |-> rt, tech |-> tech, state |-> tech_indicators_state,
        last_init_date |-> last_init_date, processed |-> processed_stocks]

Store(d0) ==
    \E d \in {d0} :
    /\ rt' = d.rt
    /\ tech' = d.tech
    /\ tech_indicators_state' = d.state
    /\ last_init_date' = d.last_init_date
    /\ processed_stocks' = d.processed

\* ------------------------------------------------------------ environment
\* the market publishes a new quote (weekdays, inside a trading session)
MarketMove(s) ==
    /\ moves < MaxMoves
    /\ clock.wd < 5 /\ is_trading_time(Tod(clock))
    /\ \E dlt \in {0 - 1, 1} :
         quote' = [quote EXCEPT ![s] = [time |-> quote[s].time + 1,
                                        price |-> quote[s].price + dlt, date |-> clock.day]]
    /\ moves' = moves + 1
    /\ UNCHANGED <<clock, requests, config_file, edits, config, config_last_modified,
                   since_config_update, processed_stocks, tech_indicators_state,
                   last_init_date, rt, hist, tech, reload, collect, monitor>>
    /\ UNCHANGED offSys

\* somebody edits config.json (may happen between any two steps of the program)
EditConfig ==
    /\ edits < MaxEdits
    /\ \E set \in (SUBSET Stocks) \ {{}, config_file.stocks} :
         config_file' = [stocks |-> set, mtime |-> config_file.mtime + 1]
    /\ edits' = edits + 1
    /\ UNCHANGED <<clock, quote, moves, requests, config, config_last_modified,
                   since_config_update, processed_stocks, tech_indicators_state,
                   last_init_date, rt, hist, tech, reload, collect, monitor>>
    /\ UNCHANGED offSys

\* a second passes
SecondPasses ==
    /\ since_config_update < table_creation_cooldown
    /\ since_config_update' = since_config_update + 1
    /\ UNCHANGED <<clock, quote, moves, requests, config_file, edits, config,
                   config_last_modified, processed_stocks, tech_indicators_state,
                   last_init_date, rt, hist, tech, reload, collect, monitor>>
    /\ UNCHANGED offSys

\* the clock reaches the next representative time; a monitor cycle awaits
\* nothing that suspends and is over before it does
ClockAdvance ==
    /\ monitor.pc = "sleep"
    /\ \/ /\ clock.slot < Len(TimesOfDay)
          /\ clock' = [clock EXCEPT !.slot = clock.slot + 1]
       \/ /\ clock.slot = Len(TimesOfDay)
          /\ clock.day < MaxDays
          /\ clock' = [day |-> clock.day + 1, wd |-> (clock.wd + 1) % 7, slot |-> 1]
    /\ since_config_update' = table_creation_cooldown
    /\ UNCHANGED <<quote, moves, requests, config_file, edits, config, config_last_modified,
                   processed_stocks, tech_indicators_state, last_init_date, rt, hist, tech,
                   reload, collect, monitor>>
    /\ UNCHANGED offSys

\* ------------------------------------------- reload_config_if_changed task
\* the file is newer than the loaded configuration: load it, start the
\* cooldown, forget the processed mark of every deleted stock
ReloadDetect ==
    /\ monitor.pc = "sleep"
    /\ reload.pc = "poll"
    /\ config_file.mtime > config_last_modified
    /\ config' = config_file.stocks
    /\ config_last_modified' = config_file.mtime
    /\ since_config_update' = 0
    /\ processed_stocks' = processed_stocks \ (config \ config_file.stocks)
    /\ reload' = [pc |-> "cooling", previous |-> config]
    /\ UNCHANGED <<clock, quote, moves, requests, config_file, edits, tech_indicators_state,
                   last_init_date, rt, hist, tech, collect, monitor>>
    /\ UNCHANGED offSys

\* after the cooldown sleep: for every added stock, fetch its history and its
\* minute samples (either may fail), create its tables, compute the daily
\* indicators and mark it processed when that succeeded
ReloadFinish ==
    /\ monitor.pc = "sleep"
    /\ reload.pc = "cooling"
    /\ since_config_update >= table_creation_cooldown
    /\ LET new_stocks == config \ reload.previous
       IN \E fetched \in SUBSET new_stocks, minute \in SUBSET new_stocks :
            /\ hist' = [s \in Stocks |-> IF s \in fetched /\ hist[s] = <<>>
                                         THEN RampHist(MinSamples, 1) ELSE hist[s]]
            /\ rt' = [s \in Stocks |-> IF s \in minute /\ rt[s] = <<>>
                                       THEN MinuteRows(MinSamples) ELSE rt[s]]
            /\ processed_stocks' = processed_stocks \cup {s \in new_stocks : hist'[s] # <<>>}
    /\ reload' = [pc |-> "poll", previous |-> {}]
    /\ UNCHANGED <<clock, quote, moves, requests, config_file, edits, config,
                   config_last_modified, since_config_update, tech_indicators_state,
                   last_init_date, tech, collect, monitor>>
    /\ UNCHANGED offSys

\* --------------------------------------------------- collect_all_data task
\* while True: read the stock list from the file ...
CollectAllBegin ==
    /\ monitor.pc = "sleep"
    /\ collect.i > Len(collect.stocks)
    /\ collect' = [stocks |-> get_stocks_from_config, i |-> 1]
    /\ UNCHANGED <<clock, quote, moves, requests, config_file, edits, config,
                   config_last_modified, since_config_update, processed_stocks,
                   tech_indicators_state, last_init_date, rt, hist, tech, reload, monitor>>
    /\ UNCHANGED offSys

\* ... for stock in stocks: collect_realtime_data, then sleep.  No session gate.
CollectAllStep ==
    /\ monitor.pc = "sleep"
    /\ collect.i <= Len(collect.stocks)
    /\ IF should_skip_stock_processing(collect.stocks[collect.i], processed_stocks)
       THEN UNCHANGED <<requests, rt, tech, tech_indicators_state, last_init_date,
                        processed_stocks>>
       ELSE /\ requests < MaxRequests
            /\ requests' = requests + 1
            /\ \E got \in BOOLEAN : Store(collect_realtime_data(Cur, collect.stocks[collect.i], got))
    /\ collect' = [collect EXCEPT !.i = collect.i + 1]
    /\ UNCHANGED <<clock, quote, moves, config_file, edits, config, config_last_modified,
                   since_config_update, hist, reload, monitor>>
    /\ UNCHANGED offSys

\* ------------------------------------- StockAnalyzer.realtime_monitor task
HasDate(rows, day) == \E i \in 1..Len(rows) : rows[i].date = day

RECURSIVE DropDate(_, _)
DropDate(rows, day) ==
    IF rows = <<>> THEN <<>>
    ELSE (IF rows[1].date = day THEN <<>> ELSE <<rows[1]>>) \o DropDate(Tail(rows), day)

\* after 15:00, per stock without a history row for today: fetch the daily
\* figures (ok = the fetch gave data), save them, delete yesterday's realtime
\* and indicator rows
DailySummaryDue(s, ok) == ~HasDate(hist[s], clock.day) /\ s \in ok

save_daily_summary(rows, s) == Append(rows, [date |-> clock.day, close |-> quote[s].price])

clean_realtime_data(rows) == DropDate(rows, clock.day - 1)

\* one pass of the loop begins: weekend -> sleep an hour; after 15:00 -> daily
\* summary; inside a session -> read the stock list and start the cycle
MonitorBegin ==
    /\ monitor.pc = "sleep"
    /\ IF clock.wd >= 5
       THEN UNCHANGED <<hist, rt, tech, monitor>>
       ELSE /\ \E ok \in SUBSET config_file.stocks :
                 IF Tod(clock) >= 900
                 THEN /\ hist' = [s \in Stocks |-> IF DailySummaryDue(s, ok)
                                                   THEN save_daily_summary(hist[s], s) ELSE hist[s]]
                      /\ rt' = [s \in Stocks |-> IF DailySummaryDue(s, ok)
                                                 THEN clean_realtime_data(rt[s]) ELSE rt[s]]
                      /\ tech' = [s \in Stocks |->
                                    IF DailySummaryDue(s, ok) /\ tech[s].exists
                                    THEN [tech[s] EXCEPT !.rows = clean_realtime_data(@)]
                                    ELSE tech[s]]
                 ELSE ok = {} /\ UNCHANGED <<hist, rt, tech>>
            /\ monitor' = IF is_trading_time(Tod(clock)) /\ get_stocks_from_config # <<>>
                          THEN [pc |-> "run", stocks |-> get_stocks_from_config, i |-> 1]
                          ELSE monitor
    /\ UNCHANGED <<clock, quote, moves, requests, config_file, edits, config,
                   config_last_modified, since_config_update, processed_stocks,
                   tech_indicators_state, last_init_date, reload, collect>>
    /\ UNCHANGED offSys

\* for stock in stocks: collect_realtime_data(stock); after the last one, sleep
MonitorStep ==
    /\ monitor.pc = "run"
    /\ IF should_skip_stock_processing(monitor.stocks[monitor.i], processed_stocks)
       THEN UNCHANGED <<requests, rt, tech, tech_indicators_state, last_init_date,
                        processed_stocks>>
       ELSE /\ requests < MaxRequests
            /\ requests' = requests + 1
            /\ \E got \in BOOLEAN : Store(collect_realtime_data(Cur, monitor.stocks[monitor.i], got))
    /\ monitor' = IF monitor.i = Len(monitor.stocks)
                  THEN [pc |-> "sleep", stocks |-> <<>>, i |-> 1]
                  ELSE [monitor EXCEPT !.i = monitor.i + 1]
    /\ UNCHANGED <<clock, quote, moves, config_file, edits, config, config_last_modified,
                   since_config_update, hist, reload, collect>>
    /\ UNCHANGED offSys

\* ------------------------------------------ the engine, sample by sample
\* generated series of whole prices: rising, falling, alternating, constant
SeedSeries == {[i \in 1..MinSamples |-> BasePrice + ((i - 1) \div 3)],
               [i \in 1..MinSamples |-> BasePrice + 10 - ((i - 1) \div 3)],
               [i \in 1..MinSamples |-> BasePrice + (i % 2)],
               [i \in 1..MinSamples |-> BasePrice]}

\* the series as rows of the realtime table and of the history table
AsMinuteRows(xs) == [i \in 1..Len(xs) |-> [time |-> i, price |-> xs[i], date |-> 0]]
AsHistory(xs) == [i \in 1..Len(xs) |-> [date |-> i, close |-> xs[i]]]

IdleEng ==
    /\ e_series = <<>>
    /\ e_seed = "none"
    /\ e_state = <<>>
    /\ e_snap = <<>>
    /\ e_ticks = 0
    /\ e_run = 0
    /\ e_dir = 0
    /\ e_turns = 0

\* the state is seeded by the cold path from the series as minute samples
EngineSeedCold ==
    /\ e_seed = "none"
    /\ e_seed' = "cold"
    /\ e_state' = <<ColdState(ColdCols(e_series), AsMinuteRows(e_series), 0)>>
    /\ UNCHANGED <<e_series, e_snap, e_ticks, e_run, e_dir, e_turns, offEng>>

\* the state is seeded by initialize_technical_indicators_state from the
\* series as daily history
EngineSeedHistory ==
    /\ e_seed = "none"
    /\ e_seed' = "history"
    /\ e_state' = <<HistoryState(LastN(AsHistory(e_series), HistLimit), 0)>>
    /\ UNCHANGED <<e_series, e_snap, e_ticks, e_run, e_dir, e_turns, offEng>>

\* one tick: the price moves by dlt and the warm path updates the state
EngineFeed(dlt) ==
    /\ e_seed # "none"
    /\ e_ticks < MaxTicks
    /\ e_series[Len(e_series)] + dlt >= 1
    /\ e_ticks > 0 /\ dlt # e_dir => e_turns < MaxTurns
    /\ \E w \in {WarmUpdate(e_state[1], e_series[Len(e_series)] + dlt, 0, 0)} :
         /\ e_state' = <<w.st>>
         /\ e_snap' = <<[MACD |-> w.MACD, Signal |-> w.Signal, MACD_Hist |-> w.MACD_Hist,
                         RSI |-> Some(w.RSI), Upper_Band |-> Some(w.Upper_Band),
                         Lower_Band |-> Some(w.Lower_Band), MA5 |-> w.MA5, MA10 |-> w.MA10]>>
    /\ e_series' = Append(e_series, e_series[Len(e_series)] + dlt)
    /\ e_ticks' = e_ticks + 1
    /\ e_run' = IF dlt >= 0 THEN e_run + 1 ELSE 0
    /\ e_dir' = dlt
    /\ e_turns' = IF e_ticks > 0 /\ dlt # e_dir THEN e_turns + 1 ELSE e_turns
    /\ UNCHANGED <<e_seed, offEng>>

\* ------------------------------------------- save_alert and the alert feed
Writers == {"w1", "w2"}

IdleFeed ==
    /\ alert_log = <<>>
    /\ feed = <<>>
    /\ alerts = 0
    /\ writer = [w \in Writers |-> [pc |-> "idle", alert |-> 0]]

\* INSERT INTO multi_factor_alerts and commit; an exception (ok = FALSE) ends
\* the call in the handler: log, rollback
SaveAlertInsert(w) ==
    /\ writer[w].pc = "idle"
    /\ alerts < MaxAlerts
    /\ alerts' = alerts + 1
    /\ \E ok \in BOOLEAN :
         IF ok
         THEN /\ alert_log' = Append(alert_log, FeedKeep + alerts + 1)
              /\ writer' = [writer EXCEPT ![w] = [pc |-> "committed", alert |-> FeedKeep + alerts + 1]]
         ELSE UNCHANGED <<alert_log, writer>>
    /\ UNCHANGED <<feed, offFeed>>

\* redis lpush
SaveAlertPush(w) ==
    /\ writer[w].pc = "committed"
    /\ \E ok \in BOOLEAN :
         IF ok
         THEN /\ feed' = <<writer[w].alert>> \o feed
              /\ writer' = [writer EXCEPT ![w].pc = "pushed"]
         ELSE /\ feed' = feed
              /\ writer' = [writer EXCEPT ![w] = [pc |-> "idle", alert |-> 0]]
    /\ UNCHANGED <<alert_log, alerts, offFeed>>

\* redis ltrim 0 99, a command of its own
SaveAlertTrim(w) ==
    /\ writer[w].pc = "pushed"
    /\ \E ok \in BOOLEAN :
         feed' = IF ok THEN SubSeq(feed, 1, Min2(Len(feed), FeedKeep)) ELSE feed
    /\ writer' = [writer EXCEPT ![w] = [pc |-> "idle", alert |-> 0]]
    /\ UNCHANGED <<alert_log, alerts, offFeed>>

\* ---------------------------------------------------- StockDecisionAnalyzer
\* the result of one analysis: kind "ok" (a dict), "None", or "TypeError" (raised)
NoAnalysis == [kind |-> "None", score |-> 0, can_buy |-> FALSE, reasons |-> <<>>]
RaisedTypeError == [kind |-> "TypeError", score |-> 0, can_buy |-> FALSE, reasons |-> <<>>]

\* what one rule adds to the score and to the reasons, or the exception it raises
Part(adj, reasons) == [adj |-> adj, reasons |-> reasons, raised |-> FALSE]
PartRaised == [adj |-> 0, reasons |-> <<>>, raised |-> TRUE]
Join(p, q) ==
    IF p.raised \/ q.raised THEN PartRaised ELSE Part(p.adj + q.adj, p.reasons \o q.reasons)

\* all(t[i] > t[i + 1] for i in range(2)) (rising) or with < (falling) over the
\* three newest values: "T", "F", or "E" when a comparison meets None
Chain(t, rising) ==
    LET lt(x, y) == IF rising THEN Val(x) > Val(y) ELSE Val(x) < Val(y)
    IN IF IsNaN(t[1]) \/ IsNaN(t[2]) THEN "E"
       ELSE IF ~lt(t[1], t[2]) THEN "F"
       ELSE IF IsNaN(t[3]) THEN "E"
       ELSE IF lt(t[2], t[3]) THEN "T" ELSE "F"

TrendPart(t, up, down) ==
    IF Chain(t, TRUE) = "E" THEN PartRaised
    ELSE IF Chain(t, TRUE) = "T" THEN Part(8, <<up>>)
    ELSE IF Chain(t, FALSE) = "E" THEN PartRaised
    ELSE IF Chain(t, FALSE) = "T" THEN Part(0 - 8, <<down>>)
    ELSE Part(0, <<>>)

MacdPart(rows) ==
    Join(IF rows[1].MACD_Hist > macd_hist_positive * SCALE THEN Part(10, <<"macd_hist_positive">>)
         ELSE IF rows[1].MACD_Hist < 0 THEN Part(0 - 10, <<"macd_hist_negative">>)
         ELSE Part(0, <<>>),
         IF Len(rows) >= 3
         THEN TrendPart([i \in 1..3 |-> Some(rows[i].MACD_Hist)], "macd_rising", "macd_falling")
         ELSE Part(0, <<>>))

RsiPart(rows) ==
    Join(IF rows[1].RSI > rsi_buy * SCALE /\ rows[1].RSI < rsi_overbought * SCALE
         THEN Part(10, <<"rsi_buy">>)
         ELSE IF rows[1].RSI >= rsi_overbought * SCALE THEN Part(0 - 10, <<"rsi_overbought">>)
         ELSE IF rows[1].RSI <= rsi_oversold * SCALE THEN Part(5, <<"rsi_oversold">>)
         ELSE Part(0, <<>>),
         IF Len(rows) >= 3
         THEN TrendPart([i \in 1..3 |-> Some(rows[i].RSI)], "rsi_rising", "rsi_falling")
         ELSE Part(0, <<>>))

\* 'MA5' in indicators is true of every row of the table (NULL is a None
\* value under the key); a comparison with None raises TypeError
MaPart(rows) ==
    IF IsNaN(rows[1].MA5) \/ IsNaN(rows[1].MA10) THEN PartRaised
    ELSE Join(IF Val(rows[1].MA5) > Val(rows[1].MA10) THEN Part(10, <<"ma5_above_ma10">>)
              ELSE Part(0 - 10, <<"ma5_below_ma10">>),
              IF Len(rows) >= 3
              THEN TrendPart([i \in 1..3 |-> rows[i].MA5], "ma5_rising", "ma5_falling")
              ELSE Part(0, <<>>))

BandPart(rows) ==
    IF rows[1].price > rows[1].Upper_Band THEN Part(0 - 10, <<"above_upper_band">>)
    ELSE IF rows[1].price < rows[1].Lower_Band THEN Part(10, <<"below_lower_band">>)
    ELSE Part(0, <<>>)

\* analyze_realtime_indicators(indicators_data), newest row first
analyze_realtime_indicators(rows) ==
    IF rows = <<>> THEN NoAnalysis
    ELSE \* Python evaluates the rules in this order and the first exception ends the call
         Only({ IF p.raised THEN RaisedTypeError
                ELSE [kind |-> "ok", score |-> Max2(0, Min2(100, base_score + p.adj)),
                      can_buy |-> Max2(0, Min2(100, base_score + p.adj)) >= buy_threshold,
                      reasons |-> p.reasons]
                : p \in {Join(Join(MacdPart(rows), RsiPart(rows)),
                              Join(MaPart(rows), BandPart(rows)))} })

\* calculate_comprehensive_score: weights 0.4 / 0.3 / 0.3 over the analyses
\* that exist; the daily and the fundamental analysis are a score or None
calculate_comprehensive_score(realtime_analysis, daily_analysis, fundamental_analysis) ==
    LET total == (IF realtime_analysis.kind = "ok" THEN 4 * realtime_analysis.score ELSE 0)
                 + (IF ~IsNaN(daily_analysis) THEN 3 * Val(daily_analysis) ELSE 0)
                 + (IF ~IsNaN(fundamental_analysis) THEN 3 * Val(fundamental_analysis) ELSE 0)
        effective_weight == (IF realtime_analysis.kind = "ok" THEN 4 ELSE 0)
                            + (IF ~IsNaN(daily_analysis) THEN 3 ELSE 0)
                            + (IF ~IsNaN(fundamental_analysis) THEN 3 ELSE 0)
    IN IF effective_weight = 0 THEN [score |-> 0, can_buy |-> FALSE]
       ELSE [score |-> (total * SCALE) \div effective_weight,
             can_buy |-> (total * SCALE) \div effective_weight >= buy_threshold * SCALE]

NoResult(t) ==
    [kind |-> "None", can_buy |-> FALSE, score |-> 0, realtime_analysis |-> NoAnalysis,
     daily_analysis |-> NaN, fundamental_analysis |-> NaN, analysis_time |-> t]

\* _analyze_single_stock: the three analyses run outside any try block
analyze_single_stock(rows, daily_analysis, fundamental_analysis, t) ==
    Only({ IF ra.kind = "TypeError" THEN [NoResult(t) EXCEPT !.kind = "TypeError"]
           ELSE [kind |-> "result",
                 can_buy |-> calculate_comprehensive_score(ra, daily_analysis, fundamental_analysis).can_buy,
                 score |-> calculate_comprehensive_score(ra, daily_analysis, fundamental_analysis).score,
                 realtime_analysis |-> ra, daily_analysis |-> daily_analysis,
                 fundamental_analysis |-> fundamental_analysis, analysis_time |-> t]
           : ra \in {analyze_realtime_indicators(rows)} })

\* analyze_stock_threaded: an exception of the analysis is logged and the
\* thread returns None
analyze_stock_threaded(rows, daily_analysis, fundamental_analysis, t) ==
    Only({ IF r.kind = "TypeError" THEN NoResult(t) ELSE r
           : r \in {analyze_single_stock(rows, daily_analysis, fundamental_analysis, t)} })

HasSignal(signals, code, t) ==
    \E i \in 1..Len(signals) : signals[i].stock_code = code /\ signals[i].analysis_time = t

\* save_buy_signal: update the row of the same stock and analysis time, or
\* insert one; at max_stocks other stocks the call returns before its commit
save_buy_signal(signals, code, r) ==
    IF ~r.can_buy THEN signals
    ELSE IF HasSignal(signals, code, r.analysis_time)
    THEN [i \in 1..Len(signals) |->
            IF signals[i].stock_code = code /\ signals[i].analysis_time = r.analysis_time
            THEN [signals[i] EXCEPT !.score = r.score] ELSE signals[i]]
    ELSE IF Cardinality({signals[i].stock_code : i \in 1..Len(signals)}) >= max_stocks
            /\ ~\E i \in 1..Len(signals) : signals[i].stock_code = code
    THEN signals
    ELSE Append(signals, [stock_code |-> code, analysis_time |-> r.analysis_time, score |-> r.score])

\* SELECT * FROM realtime_technical_<name> ORDER BY time DESC LIMIT 100
newest_rows(s) ==
    IF ~tech[s].exists THEN <<>>
    ELSE [i \in 1..Min2(RowLimit, Len(tech[s].rows)) |-> tech[s].rows[Len(tech[s].rows) + 1 - i]]

\* StockDecisionAnalyzer.is_trading_time: the sessions of a weekday
decision_is_trading_time == clock.wd < 5 /\ is_trading_time(Tod(clock))

IdleDec ==
    /\ decision = [pc |-> "sleep", todo |-> {}, cycle |-> 0]
    /\ d_inputs = [s \in Stocks |-> <<>>]
    /\ d_results = [s \in Stocks |-> <<>>]
    /\ trading_signals = <<>>
    /\ last_recommendations = {}

\* inside a session the monitor submits one analysis per configured stock
DecisionBegin ==
    /\ decision.pc = "sleep"
    /\ decision.cycle < MaxCycles
    /\ decision_is_trading_time
    /\ decision' = [pc |-> "run", todo |-> config_file.stocks, cycle |-> decision.cycle + 1]
    /\ d_inputs' = [s \in Stocks |-> <<>>]
    /\ d_results' = [s \in Stocks |-> <<>>]
    /\ UNCHANGED <<trading_signals, last_recommendations, offDec>>

\* one analysis completes: the thread (analyze_stock_threaded, which saves a
\* buy signal) and the monitor's handling of its result; the daily and the
\* fundamental analysis are given by their outcome
DecisionAnalyze(s) ==
    /\ decision.pc = "run"
    /\ s \in decision.todo
    /\ \E daily_analysis \in {NaN, Some(70)}, fundamental_analysis \in {NaN, Some(70)} :
       \E rows \in {newest_rows(s)} :
       \E r \in {analyze_stock_threaded(rows, daily_analysis, fundamental_analysis,
                                        [day |-> clock.day, slot |-> clock.slot,
                                         cycle |-> decision.cycle])} :
         /\ d_inputs' = [d_inputs EXCEPT ![s] = <<[latest |-> IF rows = <<>> THEN <<>> ELSE <<rows[1]>>,
                                                   daily_analysis |-> daily_analysis,
                                                   fundamental_analysis |-> fundamental_analysis]>>]
         /\ d_results' = [d_results EXCEPT ![s] = <<r>>]
         /\ trading_signals' = save_buy_signal(save_buy_signal(trading_signals, s, r), s, r)
         /\ last_recommendations' = IF r.can_buy THEN last_recommendations \cup {s}
                                    ELSE last_recommendations
    /\ decision' = [decision EXCEPT !.todo = decision.todo \ {s},
                                    !.pc = IF decision.todo = {s} THEN "sleep" ELSE "run"]
    /\ UNCHANGED offDec

\* ------------------------------------------------------ PriceNewsCorrelator
\* percentages are in hundredths of a percent, volume ratios in tenths, scores
\* in 1/SCALE, times in half minutes
volume_spike_threshold == 15
spike_price_floor == 200
time_window_before == 240
time_window_after == 120
ScanRows == 10
MinRows == 2
time_score_near == 4000
time_score_hour == 3000
time_score_two_hours == 2000
time_score_far == 1000
mention_score == 3000
aligned_score == 3000
neutral_score == 1000
neutral_sentiment == 20
cause_score == 6000
potential_score == 3000

\* the values a caller may give the two configurable thresholds
PriceThresholds == {250, 300, 400}
MinScores == {1000, 3000, 5000}

\* int(x): truncation toward zero of a / b, b > 0
TruncDiv(a, b) == IF a >= 0 THEN a \div b ELSE 0 - ((0 - a) \div b)

RECURSIVE SumVolume(_, _)
SumVolume(data, i) == IF i > Len(data) THEN 0 ELSE data[i].volume + SumVolume(data, i + 1)

\* volume_spike >= volume_spike_threshold, where volume_spike is
\* current_volume / avg_volume if avg_volume > 0 else 1, and avg_volume the mean
\* over data[10:] (nan when that slice is empty)
is_volume_spike(data, current_volume) ==
    LET n == Len(data) - ScanRows
        total == SumVolume(data, ScanRows + 1)
    IN IF n > 0 /\ total > 0
       THEN 10 * current_volume * n >= volume_spike_threshold * total
       ELSE 10 >= volume_spike_threshold

is_price_anomaly_reversed(change_pct, threshold) == Abs(change_pct) <= threshold

is_price_anomaly(change_pct, threshold) == Abs(change_pct) >= threshold

IsAnomaly(data, record, threshold) ==
    \/ is_price_anomaly(record.change_pct, threshold)
    \/ is_volume_spike(data, record.volume) /\ Abs(record.change_pct) >= spike_price_floor

AnomalyOf(s, record) ==
    [stock_code |-> s, anomaly_time |-> record.time, price_change_pct |-> record.change_pct,
     anomaly_type |-> IF record.change_pct > 0 THEN "surge" ELSE "plunge"]

RECURSIVE AnomaliesFrom(_, _, _, _)
AnomaliesFrom(s, data, threshold, i) ==
    IF i > Min2(ScanRows, Len(data)) THEN <<>>
    ELSE (IF IsAnomaly(data, data[i], threshold) THEN <<AnomalyOf(s, data[i])>> ELSE <<>>)
         \o AnomaliesFrom(s, data, threshold, i + 1)

\* detect_price_anomalies: the query raises when the table lacks a column it
\* names, and the handler returns []
detect_price_anomalies(columns, s, data, threshold) ==
    IF ~columns THEN <<>>
    ELSE IF Len(data) < MinRows THEN <<>>
    ELSE AnomaliesFrom(s, data, threshold, 1)

\* retrieve_related_news: the news inside the window, in list order
InWindow(anomaly_time, news) ==
    /\ anomaly_time - time_window_before <= news.at
    /\ news.at <= anomaly_time + time_window_after

NewsItem(anomaly_time, news) ==
    [news |-> news.id, time_delta_minutes |-> TruncDiv(news.at - anomaly_time, 2),
     mentions_stock |-> news.mentions, sentiment |-> news.sentiment, at |-> news.at]

RECURSIVE retrieve_related_news(_, _, _)
retrieve_related_news(anomaly_time, list, i) ==
    IF i > Len(list) THEN <<>>
    ELSE (IF InWindow(anomaly_time, list[i]) THEN <<NewsItem(anomaly_time, list[i])>> ELSE <<>>)
         \o retrieve_related_news(anomaly_time, list, i + 1)

time_score(news_item) ==
    LET time_delta_abs == Abs(news_item.time_delta_minutes)
    IN IF time_delta_abs < 30 THEN time_score_near
       ELSE IF time_delta_abs < 60 THEN time_score_hour
       ELSE IF time_delta_abs < 120 THEN time_score_two_hours
       ELSE time_score_far

sentiment_part(anomaly, news_item) ==
    IF IsNaN(news_item.sentiment) THEN 0
    ELSE LET price_direction == IF anomaly.price_change_pct > 0 THEN 1 ELSE 0 - 1
             sentiment_direction == IF Val(news_item.sentiment) > 0 THEN 1 ELSE 0 - 1
         IN IF price_direction = sentiment_direction THEN aligned_score
            ELSE IF Abs(Val(news_item.sentiment)) < neutral_sentiment THEN neutral_score
            ELSE 0

correlation_type(news_item, score) ==
    IF news_item.time_delta_minutes < 0
    THEN (IF score >= cause_score THEN "cause"
          ELSE IF score >= potential_score THEN "potential_cause" ELSE "unrelated")
    ELSE (IF score >= cause_score THEN "reaction"
          ELSE IF score >= potential_score THEN "potential_reaction" ELSE "unrelated")

calculate_correlation_score(anomaly, news_item) ==
    LET score == time_score(news_item)
                 + (IF news_item.mentions_stock THEN mention_score ELSE 0)
                 + sentiment_part(anomaly, news_item)
    IN [news_item |-> news_item, correlation_score |-> score,
        correlation_type |-> correlation_type(news_item, score)]

\* the candidates that meet min_correlation_score, in list order
RECURSIVE Correlations(_, _, _, _)
Correlations(anomaly, related_news, min_score, i) ==
    IF i > Len(related_news) THEN <<>>
    ELSE LET c == calculate_correlation_score(anomaly, related_news[i])
         IN (IF c.correlation_score >= min_score THEN <<c>> ELSE <<>>)
            \o Correlations(anomaly, related_news, min_score, i + 1)

\* list.sort(key = correlation_score, reverse = True): stable
RECURSIVE InsertByScore(_, _)
InsertByScore(sorted, c) ==
    IF sorted = <<>> THEN <<c>>
    ELSE IF Head(sorted).correlation_score >= c.correlation_score
         THEN <<Head(sorted)>> \o InsertByScore(Tail(sorted), c)
         ELSE <<c>> \o sorted

RECURSIVE SortByScore(_, _)
SortByScore(cs, i) ==
    IF i = 0 THEN <<>> ELSE InsertByScore(SortByScore(cs, i - 1), cs[i])

CorrelationRow(anomaly_id, anomaly, c) ==
    [anomaly_id |-> anomaly_id, stock_code |-> anomaly.stock_code,
     anomaly_time |-> anomaly.anomaly_time, news |-> c.news_item.news,
     news_at |-> c.news_item.at, time_delta_minutes |-> c.news_item.time_delta_minutes,
     correlation_score |-> c.correlation_score, correlation_type |-> c.correlation_type]

\* save_anomaly_and_correlations: INSERT the anomaly, INSERT every correlation,
\* commit; on an exception (ok = FALSE) rollback
save_anomaly_and_correlations(db, anomaly, correlations, ok) ==
    IF ~ok THEN db
    ELSE LET anomaly_id == Len(db.anomalies) + 1
         IN [anomalies |-> Append(db.anomalies,
                                  [id |-> anomaly_id, stock_code |-> anomaly.stock_code,
                                   anomaly_time |-> anomaly.anomaly_time,
                                   price_change_pct |-> anomaly.price_change_pct,
                                   anomaly_type |-> anomaly.anomaly_type,
                                   related_news_count |-> Len(correlations)]),
             correlations |-> db.correlations
                              \o [k \in 1..Len(correlations) |->
                                     CorrelationRow(anomaly_id, anomaly, correlations[k])]]

\* the loop of analyze_stock over the anomalies found
RECURSIVE AnalyzeFrom(_, _, _, _, _, _)
AnalyzeFrom(db, anomalies, list, min_score, ok, i) ==
    IF i > Len(anomalies) THEN db
    ELSE LET related_news == retrieve_related_news(anomalies[i].anomaly_time, list, 1)
             correlations == Correlations(anomalies[i], related_news, min_score, 1)
             sorted == SortByScore(correlations, Len(correlations))
         IN AnalyzeFrom(IF correlations = <<>> THEN db
                        ELSE save_anomaly_and_correlations(db, anomalies[i], sorted, ok),
                        anomalies, list, min_score, ok, i + 1)

\* generated rows, newest first: one minute apart, the newest at time NewestAt
NewestAt == 1000
RowsOf(changes, volumes) ==
    [i \in 1..Len(changes) |->
        [time |-> NewestAt - 2 * (i - 1), change_pct |-> changes[i], volume |-> volumes[i]]]

\* the series 100, 100, 100, 103.5; one qualifying sample alone; twelve rows
\* with a surge, a plunge, a spike with a 2.5% move and a spike with a 1% move
DataChoices ==
    {RowsOf(<<350, 0, 0, 0>>, <<100, 100, 100, 100>>),
     RowsOf(<<350>>, <<100>>),
     RowsOf(<<100, 0, 250, 0, 0 - 400, 0, 0, 300, 0, 0, 0, 0>>,
            <<300, 100, 300, 100, 100, 100, 100, 100, 100, 100, 100, 100>>)}

QuietRows == RowsOf(<<10, 0>>, <<100, 100>>)

\* the news that arrive, in this order: [id, at, mentions, sentiment]
NewsPool ==
    <<[id |-> 1, at |-> NewestAt - 1, mentions |-> TRUE, sentiment |-> Some(50)],
      [id |-> 2, at |-> NewestAt + 1, mentions |-> FALSE, sentiment |-> NaN],
      [id |-> 3, at |-> NewestAt - 50, mentions |-> FALSE, sentiment |-> Some(0 - 10)],
      [id |-> 4, at |-> NewestAt - 236, mentions |-> FALSE, sentiment |-> Some(0 - 50)],
      [id |-> 5, at |-> NewestAt - 300, mentions |-> TRUE, sentiment |-> Some(50)]>>

IdleCor ==
    /\ c_columns = TRUE
    /\ c_rows = [s \in Stocks |-> <<>>]
    /\ hot_news = <<>>
    /\ thresholds = [price_change_threshold |-> 300, min_correlation_score |-> 3000]
    /\ price_anomalies = <<>>
    /\ price_news_correlation = <<>>
    /\ c_found = <<>>
    /\ scans = 0

\* a caller sets thresholds['price_change_threshold'] / ['min_correlation_score']
Configure ==
    /\ \E p \in PriceThresholds, m \in MinScores :
         /\ [price_change_threshold |-> p, min_correlation_score |-> m] # thresholds
         /\ thresholds' = [price_change_threshold |-> p, min_correlation_score |-> m]
    /\ UNCHANGED <<c_columns, c_rows, hot_news, price_anomalies, price_news_correlation,
                   c_found, scans>>
    /\ UNCHANGED offCor

\* the news collector pushes the next item to stock:hot_news
NewsArrives ==
    /\ Len(hot_news) < Min2(MaxNews, Len(NewsPool))
    /\ hot_news' = <<NewsPool[Len(hot_news) + 1]>> \o hot_news
    /\ UNCHANGED <<c_columns, c_rows, thresholds, price_anomalies, price_news_correlation,
                   c_found, scans>>
    /\ UNCHANGED offCor

\* analyze_stock(s)
analyze_stock(s) ==
    /\ scans < MaxScans
    /\ scans' = scans + 1
    /\ \E ok \in BOOLEAN :
       \E anomalies \in {detect_price_anomalies(c_columns, s, c_rows[s],
                                                thresholds.price_change_threshold)} :
       \E db \in {AnalyzeFrom([anomalies |-> price_anomalies,
                               correlations |-> price_news_correlation],
                              anomalies, hot_news, thresholds.min_correlation_score, ok, 1)} :
         /\ c_found' = <<[stock_code |-> s, anomalies |-> anomalies,
                         threshold |-> thresholds.price_change_threshold]>>
         /\ price_anomalies' = db.anomalies
         /\ price_news_correlation' = db.correlations
    /\ UNCHANGED <<c_columns, c_rows, hot_news, thresholds>>
    /\ UNCHANGED offCor

\* -------------------------------------------------------- GPRStockPredictor
prediction_days == 5
min_training_rows == 30
interval_z == 19600

\* what the history table of an instrument holds inside the training window:
\* no table; ten rows; thirty rows one of which lacks a core price column;
\* thirty complete rows
HistoryChoices ==
    {[exists |-> FALSE, rows |-> 0, complete |-> 0],
     [exists |-> TRUE, rows |-> 10, complete |-> 10],
     [exists |-> TRUE, rows |-> min_training_rows, complete |-> min_training_rows - 1],
     [exists |-> TRUE, rows |-> min_training_rows, complete |-> min_training_rows]}

\* prepare_training_data: the number of samples of X, or None (NaN) when the
\* table is missing, the rows are too few, or a query raised (db_ok = FALSE)
prepare_training_data(h, db_ok) ==
    IF ~db_ok THEN NaN
    ELSE IF ~h.exists THEN NaN
    ELSE IF h.rows < min_training_rows THEN NaN
    ELSE IF h.complete < min_training_rows THEN NaN
    ELSE Some(h.complete)

PredictionOf(s, today, day_offset, y_pred, sigma) ==
    [stock_code |-> s, prediction_date |-> today, target_date |-> today + day_offset,
     predicted_price |-> y_pred * SCALE,
     price_lower_bound |-> y_pred * SCALE - interval_z * sigma,
     price_upper_bound |-> y_pred * SCALE + interval_z * sigma,
     prediction_std |-> sigma * SCALE]

\* predict_future_prices with no regard for the training data
predict_future_prices_unchecked(s, h, today, db_ok, trained, y_pred, sigma) ==
    IF ~trained THEN NaN
    ELSE Some([d \in 1..prediction_days |-> PredictionOf(s, today, d, y_pred, sigma)])

\* predict_future_prices: None (NaN) or the predictions of the next days; the
\* regressor's output (y_pred, sigma) is the same for every day, the feature row
\* being reused unchanged
predict_future_prices(s, h, today, db_ok, trained, y_pred, sigma) ==
    LET X == prepare_training_data(h, db_ok)
    IN IF IsNaN(X) THEN NaN
       ELSE IF Val(X) < min_training_rows THEN NaN
       ELSE IF ~trained THEN NaN
       ELSE Some([d \in 1..prediction_days |-> PredictionOf(s, today, d, y_pred, sigma)])

\* SELECT id ... WHERE stock_code, target_date, prediction_date match: the index
\* of the first such row, 0 when fetchone() returns None
existing_never(store, pred) == 0

existing(store, pred) ==
    LET hits == {i \in 1..Len(store) :
                    /\ store[i].stock_code = pred.stock_code
                    /\ store[i].target_date = pred.target_date
                    /\ store[i].prediction_date = pred.prediction_date}
    IN IF hits = {} THEN 0 ELSE CHOOSE i \in hits : \A j \in hits : i <= j

SavePrediction(store, pred) ==
    LET e == existing(store, pred)
    IN IF e > 0
       THEN [store EXCEPT ![e].predicted_price = pred.predicted_price,
                          ![e].price_lower_bound = pred.price_lower_bound,
                          ![e].price_upper_bound = pred.price_upper_bound,
                          ![e].prediction_std = pred.prediction_std]
       ELSE Append(store, pred)

RECURSIVE SavePredictionsFrom(_, _, _)
SavePredictionsFrom(store, predictions, i) ==
    IF i > Len(predictions) THEN store
    ELSE SavePredictionsFrom(SavePrediction(store, predictions[i]), predictions, i + 1)

\* save_predictions: every prediction updated or inserted, then commit; on an
\* exception (ok = FALSE) rollback
save_predictions(store, predictions, ok) ==
    IF ok THEN SavePredictionsFrom(store, predictions, 1) ELSE store

IdleGpr ==
    /\ g_history = [s \in Stocks |-> [exists |-> FALSE, rows |-> 0, complete |-> 0]]
    /\ stock_price_predictions = <<>>
    /\ g_today = 0
    /\ g_loop = [pc |-> "idle", i |-> 1]
    /\ g_last = <<>>
    /\ g_runs = 0

\* the calendar day changes between two runs
NextIssueDay ==
    /\ g_loop.pc = "idle"
    /\ g_today < MaxIssueDays
    /\ g_today' = g_today + 1
    /\ UNCHANGED <<g_history, stock_price_predictions, g_loop, g_last, g_runs>>
    /\ UNCHANGED offGpr

\* predict_all_stocks is started
PredictAllBegin ==
    /\ g_loop.pc = "idle"
    /\ g_runs < MaxRuns
    /\ g_runs' = g_runs + 1
    /\ g_loop' = [pc |-> "run", i |-> 1]
    /\ UNCHANGED <<g_history, stock_price_predictions, g_today, g_last>>
    /\ UNCHANGED offGpr

\* one turn of the loop of predict_all_stocks: predict_future_prices and, when
\* it returned predictions, save_predictions
PredictAllStep ==
    /\ g_loop.pc = "run"
    /\ \E db_ok \in BOOLEAN, trained \in BOOLEAN, ok \in BOOLEAN,
          y_pred \in {BasePrice - 1, BasePrice + 1}, sigma \in {1} :
       \E s \in {StockOrder[g_loop.i]} :
       \E predictions \in {predict_future_prices(s, g_history[s], g_today, db_ok, trained,
                                                 y_pred, sigma)} :
         IF IsNaN(predictions)
         THEN /\ g_last' = <<[stock_code |-> s, outcome |-> "none", predictions |-> <<>>,
                              updated |-> 0]>>
              /\ UNCHANGED stock_price_predictions
         ELSE /\ g_last' = <<[stock_code |-> s,
                              outcome |-> IF ok THEN "saved" ELSE "rolled back",
                              predictions |-> Val(predictions),
                              updated |-> Cardinality(
                                  {d \in 1..Len(Val(predictions)) :
                                      existing(stock_price_predictions, Val(predictions)[d]) > 0})]>>
              /\ stock_price_predictions'
                    = save_predictions(stock_price_predictions, Val(predictions), ok)
    /\ g_loop' = IF g_loop.i = Len(StockOrder) THEN [pc |-> "idle", i |-> 1]
                 ELSE [g_loop EXCEPT !.i = g_loop.i + 1]
    /\ UNCHANGED <<g_history, g_today, g_runs>>
    /\ UNCHANGED offGpr

\* ------------------------------------------------ MultiFactorAlertSystem
\* percentages in hundredths of a percent, ratios in hundredths, RSI, MACD,
\* Signal, sentiment scores and prices in 1/SCALE, times in hours
alert_thresholds ==
    [price_change_warning |-> 300, price_change_critical |-> 500,
     rsi_overbought |-> 70 * SCALE, rsi_oversold |-> 30 * SCALE,
     sentiment_extreme_positive |-> 7000, sentiment_extreme_negative |-> 0 - 7000,
     sentiment_rapid_change |-> 5000,
     gpr_deviation_warning |-> 5, gpr_deviation_critical |-> 10,
     volume_spike |-> 200]

\* the dict appended to alerts; a message is its text and the numbers
\* formatted into it
Alert(type, level, message, details) ==
    [type |-> type, level |-> level, message |-> message, details |-> details]

\* a / b with two decimals, half up
Ratio2(a, b) == (200 * a + b) \div (2 * b)

\* check_price_alerts over the LIMIT 10 rows, newest first; the query raises
\* when the table lacks the columns it names and the handler returns []
PriceChangeAlert(latest) ==
    LET change_pct == Abs(latest.change_pct)
        details == [current_price |-> latest.current_price, change_pct |-> change_pct,
                    direction |-> IF latest.change_pct > 0 THEN "up" ELSE "down"]
    IN IF change_pct >= alert_thresholds.price_change_critical
       THEN <<Alert("PRICE_CHANGE", "CRITICAL", <<"violent move", change_pct>>, details)>>
       ELSE IF change_pct >= alert_thresholds.price_change_warning
       THEN <<Alert("PRICE_CHANGE", "WARNING", <<"marked move", change_pct>>, details)>>
       ELSE <<>>

VolumeSpikeAlert(data) ==
    IF Len(data) < 5 THEN <<>>
    ELSE LET sum == data[2].volume + data[3].volume + data[4].volume + data[5].volume
             current_volume == data[1].volume
         IN IF sum > 0 /\ 4 * 100 * current_volume >= alert_thresholds.volume_spike * sum
            THEN <<Alert("VOLUME_SPIKE", "WARNING",
                         <<"volume spike", Ratio2(4 * current_volume, sum)>>,
                         [current_volume |-> current_volume, sum_volume |-> sum])>>
            ELSE <<>>

check_price_alerts(columns, data) ==
    IF ~columns THEN <<>>
    ELSE IF data = <<>> THEN <<>>
    ELSE PriceChangeAlert(data[1]) \o VolumeSpikeAlert(data)

\* bool(x) of a column value: None and Decimal zero are false
Truthy(x) == ~IsNaN(x) /\ Val(x) # 0

RsiAlert(latest) ==
    IF IsNaN(latest.RSI) THEN <<>>
    ELSE IF Val(latest.RSI) >= alert_thresholds.rsi_overbought
    THEN <<Alert("RSI_OVERBOUGHT", "WARNING", <<"RSI overbought", Dec2(Val(latest.RSI))>>,
                 [rsi_value |-> Val(latest.RSI), threshold |-> alert_thresholds.rsi_overbought])>>
    ELSE IF Val(latest.RSI) <= alert_thresholds.rsi_oversold
    THEN <<Alert("RSI_OVERSOLD", "WARNING", <<"RSI oversold", Dec2(Val(latest.RSI))>>,
                 [rsi_value |-> Val(latest.RSI), threshold |-> alert_thresholds.rsi_oversold])>>
    ELSE <<>>

\* the cross test of check_technical_alerts; comparing None raises TypeError,
\* which ends the check with the alerts gathered so far
MacdCrossAlert(data) ==
    IF Len(data) < 2 THEN <<>>
    ELSE LET latest == data[1]
             prev == data[2]
             details == [macd |-> latest.MACD, signal |-> latest.Signal]
         IN IF ~(Truthy(prev.MACD) /\ Truthy(prev.Signal)) THEN <<>>
            ELSE IF IsNaN(latest.MACD) \/ IsNaN(latest.Signal) THEN <<>>
            ELSE IF Val(prev.MACD) < Val(prev.Signal) /\ Val(latest.MACD) > Val(latest.Signal)
            THEN <<Alert("MACD_GOLDEN_CROSS", "INFO", <<"golden cross">>, details)>>
            ELSE IF Val(prev.MACD) > Val(prev.Signal) /\ Val(latest.MACD) < Val(latest.Signal)
            THEN <<Alert("MACD_DEATH_CROSS", "WARNING", <<"death cross">>, details)>>
            ELSE <<>>

\* a technical check that stays silent once the alert log holds a row
check_technical_alerts_once(table) ==
    IF alert_log # <<>> THEN <<>>
    ELSE IF ~table.exists THEN <<>>
    ELSE IF table.rows = <<>> THEN <<>>
    ELSE RsiAlert(table.rows[1]) \o MacdCrossAlert(table.rows)

\* check_technical_alerts over [exists, rows]: the LIMIT 5 rows, newest first
check_technical_alerts(table) ==
    IF ~table.exists THEN <<>>
    ELSE IF table.rows = <<>> THEN <<>>
    ELSE RsiAlert(table.rows[1]) \o MacdCrossAlert(table.rows)

\* WHERE stock_code = %s AND news_datetime >= DATE_SUB(NOW(), INTERVAL 24 HOUR)
\* ORDER BY news_datetime DESC; the rows are kept newest first
RecentSentiment(rows, s, now) ==
    SelectSeq(rows, LAMBDA r : r.stock_code = s /\ r.news_datetime >= now - 24)

ExtremeAlert(item) ==
    IF IsNaN(item.sentiment_score) THEN <<>>
    ELSE LET score == Val(item.sentiment_score)
             details == [sentiment_score |-> score, news_time |-> item.news_datetime,
                         news_preview |-> item.news]
         IN IF score >= alert_thresholds.sentiment_extreme_positive
            THEN <<Alert("SENTIMENT_EXTREME_POSITIVE", "INFO",
                         <<"extreme positive", Dec2(score)>>, details)>>
            ELSE IF score <= alert_thresholds.sentiment_extreme_negative
            THEN <<Alert("SENTIMENT_EXTREME_NEGATIVE", "WARNING",
                         <<"extreme negative", Dec2(score)>>, details)>>
            ELSE <<>>

RECURSIVE ExtremeAlerts(_, _)
ExtremeAlerts(data, i) ==
    IF i > Len(data) THEN <<>> ELSE ExtremeAlert(data[i]) \o ExtremeAlerts(data, i + 1)

RapidChangeAlert(data) ==
    IF Len(data) < 3 THEN <<>>
    ELSE LET recent_scores == SelectSeq(SubSeq(data, 1, 3), LAMBDA d : ~IsNaN(d.sentiment_score))
         IN IF Len(recent_scores) < 2 THEN <<>>
            ELSE LET first == Val(recent_scores[1].sentiment_score)
                     last == Val(recent_scores[Len(recent_scores)].sentiment_score)
                     sentiment_change == Abs(first - last)
                 IN IF sentiment_change >= alert_thresholds.sentiment_rapid_change
                    THEN <<Alert("SENTIMENT_RAPID_CHANGE", "WARNING",
                                 <<"rapid change", Dec2(sentiment_change)>>,
                                 [from_score |-> last, to_score |-> first,
                                  change |-> sentiment_change])>>
                    ELSE <<>>

check_sentiment_alerts(rows, s, now) ==
    LET data == SubSeq(RecentSentiment(rows, s, now), 1, Min2(10, Len(RecentSentiment(rows, s, now))))
    IN IF data = <<>> THEN <<>>
       ELSE ExtremeAlerts(data, 1) \o RapidChangeAlert(data)

\* WHERE stock_code = %s AND target_date = CURDATE() ORDER BY prediction_date
\* DESC LIMIT 1: the indices of the rows the query may return
TodaysPrediction(rows, s, today) ==
    {i \in 1..Len(rows) :
        /\ rows[i].stock_code = s
        /\ rows[i].target_date = today
        /\ \A j \in 1..Len(rows) :
             (rows[j].stock_code = s /\ rows[j].target_date = today)
                => rows[j].prediction_date <= rows[i].prediction_date}

\* the comparison of check_gpr_deviation_alerts against one prediction; a
\* predicted price of zero raises ZeroDivisionError and the handler returns []
GprAlert(current_price, prediction) ==
    LET predicted_price == prediction.predicted_price
        lower_bound == prediction.price_lower_bound
        upper_bound == prediction.price_upper_bound
        deviation == Abs(current_price - predicted_price)
    IN IF predicted_price = 0 THEN <<>>
       ELSE LET deviation_pct == (10000 * deviation) \div predicted_price
            IN IF current_price > upper_bound
               THEN <<Alert("GPR_DEVIATION_UPPER", "WARNING",
                            <<"above upper bound", Dec2(current_price), Dec2(upper_bound)>>,
                            [current_price |-> current_price, predicted_price |-> predicted_price,
                             bound |-> upper_bound, deviation_pct |-> deviation_pct])>>
               ELSE IF current_price < lower_bound
               THEN <<Alert("GPR_DEVIATION_LOWER", "WARNING",
                            <<"below lower bound", Dec2(current_price), Dec2(lower_bound)>>,
                            [current_price |-> current_price, predicted_price |-> predicted_price,
                             bound |-> lower_bound, deviation_pct |-> deviation_pct])>>
               ELSE IF 100 * deviation >= alert_thresholds.gpr_deviation_critical * predicted_price
               THEN <<Alert("GPR_DEVIATION_CRITICAL", "CRITICAL",
                            <<"far from prediction", deviation_pct>>,
                            [current_price |-> current_price, predicted_price |-> predicted_price,
                             bound |-> predicted_price, deviation_pct |-> deviation_pct])>>
               ELSE <<>>

\* check_gpr_deviation_alerts over the predictions table [exists, rows] and the
\* realtime rows, newest first
check_gpr_deviation_alerts(predictions, data, s, today) ==
    IF ~predictions.exists THEN <<>>
    ELSE IF TodaysPrediction(predictions.rows, s, today) = {} THEN <<>>
    ELSE IF data = <<>> THEN <<>>
    ELSE GprAlert(data[1].current_price,
                  predictions.rows[Only(TodaysPrediction(predictions.rows, s, today))])

\* the four checks of analyze_stock, in its order
AllAlerts(columns, data, table, sentiment, predictions, s, now) ==
    check_price_alerts(columns, data)
        \o check_technical_alerts(table)
        \o check_sentiment_alerts(sentiment, s, now)
        \o check_gpr_deviation_alerts(predictions, data, s, now \div 24)

\* what the tables hold at start. Realtime rows: five rows whose newest has the
\* given price, change and volume
AlertRows(price, change_pct, volume) ==
    [i \in 1..5 |-> IF i = 1
                    THEN [current_price |-> price, change_pct |-> change_pct, volume |-> volume]
                    ELSE [current_price |-> FP(BasePrice), change_pct |-> 0, volume |-> 100]]

MacdValues == {0 - 5000, 0, 5000}

\* the newest two rows of realtime_technical_<name>, or no such table
TechnicalRows(pm, ps, lm, ls) ==
    <<[RSI |-> IF lm > 0 THEN Some(75 * SCALE) ELSE IF lm < 0 THEN Some(25 * SCALE) ELSE NaN,
       MACD |-> Some(lm), Signal |-> Some(ls)],
      [RSI |-> Some(50 * SCALE), MACD |-> Some(pm), Signal |-> Some(ps)]>>

\* the previous row with every pair of values, the newest row with MACD above,
\* below and on a Signal of zero; or no such table
TechnicalChoices ==
    {[exists |-> FALSE, rows |-> <<>>]}
        \cup {[exists |-> TRUE, rows |-> TechnicalRows(pm, ps, lm, 0)] :
                 pm \in MacdValues, ps \in MacdValues, lm \in MacdValues}

ForecastRow(s, target_date, predicted, half_width) ==
    [stock_code |-> s, prediction_date |-> 0 - 1, target_date |-> target_date,
     predicted_price |-> predicted, price_lower_bound |-> predicted - half_width,
     price_upper_bound |-> predicted + half_width]

SentimentRow(s, score, news_datetime, news) ==
    [stock_code |-> s, sentiment_score |-> score, news_datetime |-> news_datetime, news |-> news]

\* what the other stores hold at start:
\*  a price of 23 against a forecast of 20 +- 1 for today and 20 +- 5 for
\*  tomorrow, news scored 0.8, 0.1 and -0.7 at 20:00, 10:00 and 00:00;
\*  a price of 21.5 against the same forecasts, a volume three times the
\*  average, one news item without a score;
\*  no sample, no news, no predictions table;
\*  a price of 23 against a forecast of 20 +- 5 for today
AlertScenes ==
    {[realtime |-> AlertRows(FP(BasePrice + 3), 350, 100),
      sentiment |-> <<SentimentRow("A", Some(8000), 20, 3),
                      SentimentRow("A", Some(1000), 10, 2),
                      SentimentRow("A", Some(0 - 7000), 0, 1)>>,
      predictions |-> [exists |-> TRUE,
                       rows |-> <<ForecastRow("A", 0, FP(BasePrice), SCALE),
                                  ForecastRow("A", 1, FP(BasePrice), 5 * SCALE)>>]],
     [realtime |-> AlertRows(FP(BasePrice) + 15000, 0 - 600, 300),
      sentiment |-> <<SentimentRow("A", NaN, 22, 3),
                      SentimentRow("A", Some(2000), 21, 2),
                      SentimentRow("B", Some(9000), 20, 1)>>,
      predictions |-> [exists |-> TRUE,
                       rows |-> <<ForecastRow("A", 0, FP(BasePrice), SCALE),
                                  ForecastRow("A", 1, FP(BasePrice), 5 * SCALE)>>]],
     [realtime |-> <<>>, sentiment |-> <<>>, predictions |-> [exists |-> FALSE, rows |-> <<>>]],
     [realtime |-> AlertRows(FP(BasePrice + 3), 350, 100), sentiment |-> <<>>,
      predictions |-> [exists |-> TRUE,
                       rows |-> <<ForecastRow("A", 0, FP(BasePrice), 5 * SCALE)>>]]}

IdleAlm ==
    /\ m_columns = FALSE
    /\ m_realtime = [s \in Stocks |-> <<>>]
    /\ m_technical = [s \in Stocks |-> [exists |-> FALSE, rows |-> <<>>]]
    /\ m_sentiment = <<>>
    /\ m_predictions = [exists |-> FALSE, rows |-> <<>>]
    /\ m_now = 0
    /\ m_runs = [s \in Stocks |-> <<>>]
    /\ m_checks = 0
    /\ m_arrivals = 0

\* what the checks of instrument s read from the stores
StoredInputs(s) == <<m_columns, m_realtime[s], m_technical[s], m_sentiment, m_predictions>>

\* save_alert for every alert of the list, in order: INSERT and commit, lpush,
\* ltrim; with Redis down the alerts reach the log only
SaveAlerts(s, all, outcome) ==
    LET stamped == [i \in 1..Len(all) |-> [stock_code |-> s, alert_time |-> m_now, alert |-> all[i]]]
        pushed == [i \in 1..Len(all) |-> stamped[Len(all) + 1 - i]] \o feed
    IN /\ alert_log' = IF outcome = "none" THEN alert_log ELSE alert_log \o stamped
       /\ feed' = IF outcome = "saved" THEN SubSeq(pushed, 1, Min2(Len(pushed), FeedKeep)) ELSE feed

\* MultiFactorAlertSystem.analyze_stock: the four checks, then save_alert for
\* each alert
AlertAnalyzeStock(s) ==
    /\ m_checks < MaxChecks
    /\ m_checks' = m_checks + 1
    /\ \E all \in {AllAlerts(m_columns, m_realtime[s], m_technical[s], m_sentiment,
                             m_predictions, s, m_now)} :
         /\ m_runs' = [m_runs EXCEPT ![s] = LastN(Append(@, [inputs |-> StoredInputs(s),
                                                               now |-> m_now,
                                                               alerts |-> all]), 2)]
         /\ \E outcome \in {"saved", "log only"} : SaveAlerts(s, all, outcome)
    /\ UNCHANGED <<m_columns, m_realtime, m_technical, m_sentiment, m_predictions, m_now, m_arrivals>>
    /\ UNCHANGED <<alerts, writer>>
    /\ UNCHANGED offAlmSave

\* an hour passes on the database server's clock
AlertHourPasses ==
    /\ m_now < 23 + MaxHours
    /\ m_now' = m_now + 1
    /\ UNCHANGED <<m_columns, m_realtime, m_technical, m_sentiment, m_predictions, m_runs,
                   m_checks, m_arrivals>>
    /\ UNCHANGED offAlm

\* the collector stores a new sample of instrument s: price 20.50, unchanged
RealtimeRowArrives(s) ==
    /\ m_arrivals < MaxArrivals
    /\ m_arrivals' = m_arrivals + 1
    /\ m_realtime' = [m_realtime EXCEPT ![s] =
                         <<[current_price |-> FP(BasePrice) + 5000, change_pct |-> 0,
                            volume |-> 100]>> \o @]
    /\ UNCHANGED <<m_columns, m_technical, m_sentiment, m_predictions, m_now, m_runs, m_checks>>
    /\ UNCHANGED offAlm

\* ------------------------------------- the three sub-scores and the composite
\* the adjustments each rule of an analysis can make to the score, in the
\* order of the code (0: the rule does not fire)
RealtimeRules ==
    <<{10, 0, 0 - 10}, {8, 0, 0 - 8},           \* MACD_Hist sign, its trend
      {10, 0 - 10, 5, 0}, {8, 0, 0 - 8},        \* RSI band, its trend
      {10, 0 - 10}, {8, 0, 0 - 8},              \* MA5 against MA10, MA5 trend
      {0 - 10, 10, 0}>>                         \* price against the bands

DailyRules ==
    <<{10, 0, 0 - 10}, {8, 0, 0 - 8}, {15, 0, 0 - 15},     \* MACD_Hist, trend, cross
      {10, 0 - 10, 5, 0}, {8, 0, 0 - 8},                   \* RSI band, trend
      {10, 0 - 10}, {8, 0, 0 - 8}, {15, 0, 0 - 15},        \* MA order, trend, cross
      {0 - 5, 5}, {0 - 10, 10, 0}, {10, 0 - 10, 0}>>       \* band width, price, price run

FundamentalRules ==
    <<{10, 0 - 10, 0}, {10, 0 - 10, 0}, {10, 0},           \* PE, PB, dividend yield
      {5, 0}, {0 - 5, 0}, {5, 0 - 5, 0}>>                  \* change, amplitude, turnover

\* every sum the rules from the i-th on can add
RECURSIVE AdjSums(_, _)
AdjSums(rules, i) ==
    IF i > Len(rules) THEN {0}
    ELSE {a + b : a \in rules[i], b \in AdjSums(rules, i + 1)}

\* a sub-score without its limits
SubScoreUnclamped(adj) == base_score + adj

\* score = 50, the adjustments, then score = max(0, min(100, score))
SubScore(adj) == Max2(0, Min2(100, base_score + adj))

\* the dict an analysis returns, from the sum of its adjustments
AnalysisOf(adj) ==
    [kind |-> "ok", score |-> SubScore(adj), can_buy |-> SubScore(adj) >= buy_threshold,
     reasons |-> <<>>]

IdleSco ==
    /\ s_stage = "realtime"
    /\ s_adj = [realtime |-> NaN, daily |-> NaN, fundamental |-> NaN]
    /\ s_sub = [realtime |-> NoAnalysis, daily |-> NaN, fundamental |-> NaN]
    /\ s_final = NaN

\* analyze_realtime_indicators: None without rows, else the clamped score
ScoreRealtime ==
    /\ s_stage = "realtime"
    /\ \E adj \in {NaN} \cup {Some(a) : a \in AdjSums(RealtimeRules, 1)} :
         /\ s_adj' = [s_adj EXCEPT !.realtime = adj]
         /\ s_sub' = [s_sub EXCEPT !.realtime = IF IsNaN(adj) THEN NoAnalysis
                                                ELSE AnalysisOf(Val(adj))]
    /\ s_stage' = "daily"
    /\ UNCHANGED <<s_final, offSco>>

\* analyze_daily_indicators: None with fewer than five rows
ScoreDaily ==
    /\ s_stage = "daily"
    /\ \E adj \in {NaN} \cup {Some(a) : a \in AdjSums(DailyRules, 1)} :
         /\ s_adj' = [s_adj EXCEPT !.daily = adj]
         /\ s_sub' = [s_sub EXCEPT !.daily = IF IsNaN(adj) THEN NaN
                                             ELSE Some(AnalysisOf(Val(adj)).score)]
    /\ s_stage' = "fundamental"
    /\ UNCHANGED <<s_final, offSco>>

\* analyze_fundamental_data: None without data
ScoreFundamental ==
    /\ s_stage = "fundamental"
    /\ \E adj \in {NaN} \cup {Some(a) : a \in AdjSums(FundamentalRules, 1)} :
         /\ s_adj' = [s_adj EXCEPT !.fundamental = adj]
         /\ s_sub' = [s_sub EXCEPT !.fundamental = IF IsNaN(adj) THEN NaN
                                                   ELSE Some(AnalysisOf(Val(adj)).score)]
    /\ s_stage' = "combine"
    /\ UNCHANGED <<s_final, offSco>>

ScoreCombine ==
    /\ s_stage = "combine"
    /\ s_final' = Some(calculate_comprehensive_score(s_sub.realtime, s_sub.daily,
                                                     s_sub.fundamental))
    /\ s_stage' = "done"
    /\ UNCHANGED <<s_adj, s_sub, offSco>>

\* --------------------------- StockDecisionAnalyzer.get_next_trading_time_wait
\* a time of day in half seconds; now = [wd (0 = Monday), tod]
HalfSeconds(h, m, s) == 2 * (3600 * h + 60 * m + s)
DayLength == HalfSeconds(24, 0, 0)
morning_start == HalfSeconds(9, 30, 0)
morning_end == HalfSeconds(11, 30, 0)
afternoon_start == HalfSeconds(13, 0, 0)
afternoon_end == HalfSeconds(15, 0, 0)

\* StockDecisionAnalyzer.is_trading_time at the given moment
is_trading_time_at(now) ==
    /\ now.wd < 5
    /\ \/ morning_start <= now.tod /\ now.tod <= morning_end
       \/ afternoon_start <= now.tod /\ now.tod <= afternoon_end

\* the days the last branch adds to today: tomorrow, or past the weekend
days_to_add(tomorrow_wd) ==
    IF tomorrow_wd >= 5
    THEN IF tomorrow_wd = 6 THEN 8 - tomorrow_wd ELSE 7 - tomorrow_wd
    ELSE 1

\* get_next_trading_time_wait: int(wait_seconds), in seconds
get_next_trading_time_wait(now) ==
    IF now.tod < morning_start
    THEN TruncDiv(morning_start - now.tod, 2)
    ELSE IF morning_end < now.tod /\ now.tod < afternoon_start
    THEN TruncDiv(afternoon_start - now.tod, 2)
    ELSE TruncDiv(days_to_add((now.wd + 1) % 7) * DayLength + morning_start - now.tod, 2)

\* the moments the monitor is started at: 08:00, half a second before 09:30,
\* 09:30, 11:30, half a second after it, 12:59:30, half a second after 15:00,
\* 23:59:30
WaitTimes ==
    {HalfSeconds(8, 0, 0), morning_start - 1, morning_start, morning_end, morning_end + 1,
     HalfSeconds(12, 59, 30), afternoon_end + 1, HalfSeconds(23, 59, 30)}

IdleWai ==
    /\ w_now = [wd |-> 0, tod |-> 0]
    /\ w_wait = NaN
    /\ w_sleeps = 0

\* the monitor's turn outside a session: it reports the wait
WaitReport ==
    /\ ~is_trading_time_at(w_now)
    /\ w_wait = NaN
    /\ w_wait' = Some(get_next_trading_time_wait(w_now))
    /\ UNCHANGED <<w_now, w_sleeps, offWai>>

\* time.sleep(current_interval), 60 seconds, at the end of a turn
WaitSleep ==
    /\ w_sleeps < MaxSleeps
    /\ is_trading_time_at(w_now) \/ w_wait # NaN
    /\ w_sleeps' = w_sleeps + 1
    /\ w_now' = [wd |-> (w_now.wd + (w_now.tod + HalfSeconds(0, 1, 0)) \div DayLength) % 7,
                 tod |-> (w_now.tod + HalfSeconds(0, 1, 0)) % DayLength]
    /\ w_wait' = NaN
    /\ UNCHANGED offWai

\* ------------------------- save_buy_signal called by the workers of the pool
\* each call opens a connection of its own (autocommit off, InnoDB): its
\* SELECTs read one snapshot, its writes meet the rows committed by then
Workers == {"t1", "t2"}

\* the instruments that hold an unbought signal in a table
Holders(signals) == {signals[i].stock_code : i \in 1..Len(signals)}

\* ORDER BY score ASC LIMIT 1: the indices the query may return
Lowest(signals) ==
    {i \in 1..Len(signals) : \A j \in 1..Len(signals) : signals[i].score <= signals[j].score}

\* what the SELECTs of one call read: the row of the same stock and analysis
\* time, the number of distinct unbought stocks, a row of the stock, the
\* lowest score
ReadSignals(signals, call) ==
    [result |-> HasSignal(signals, call.stock_code, call.analysis_time),
     stock_count |-> Cardinality(Holders(signals)),
     exists_result |-> call.stock_code \in Holders(signals),
     lowest_signal |-> IF signals = <<>> THEN NaN ELSE Some(signals[Only(Lowest(signals))])]

\* which branch the call takes on what it read
SignalBranch(call, seen) ==
    IF seen.result THEN "update"
    ELSE IF seen.stock_count >= max_stocks /\ ~seen.exists_result
    THEN IF ~IsNaN(seen.lowest_signal) /\ Val(seen.lowest_signal).score < call.score
         THEN "replace" ELSE "keep"
    ELSE "insert"

\* what the call leaves in the table when its connection is closed: the
\* update and the insert are committed; the replacement (DELETE, INSERT) is
\* followed by return True without a commit and is rolled back; an INSERT of a
\* (stock_code, analysis_time) that exists by now raises and returns False
SignalOutcome(signals, call, seen) ==
    LET branch == SignalBranch(call, seen)
        row == [stock_code |-> call.stock_code, analysis_time |-> call.analysis_time,
                score |-> call.score]
    IN IF branch = "update"
       THEN [returned |-> TRUE, branch |-> branch,
             signals |-> [i \in 1..Len(signals) |->
                            IF signals[i].stock_code = call.stock_code
                                 /\ signals[i].analysis_time = call.analysis_time
                            THEN [signals[i] EXCEPT !.score = call.score] ELSE signals[i]]]
       ELSE IF branch \in {"replace", "keep"}
       THEN [returned |-> TRUE, branch |-> branch, signals |-> signals]
       ELSE IF HasSignal(signals, call.stock_code, call.analysis_time)
       THEN [returned |-> FALSE, branch |-> branch, signals |-> signals]
       ELSE [returned |-> TRUE, branch |-> branch, signals |-> Append(signals, row)]

\* the unbought signals of earlier cycles: n instruments, scores 61, 62, ...
HeldCodes == <<"H1", "H2", "H3", "H4", "H5">>

HeldSignals(n) ==
    [i \in 1..n |-> [stock_code |-> HeldCodes[i], analysis_time |-> 0,
                     score |-> (buy_threshold + i) * SCALE]]

IdleSig ==
    /\ sig_worker = [t \in Workers |-> [pc |-> "idle"]]
    /\ sig_calls = 0
    /\ sig_last = <<>>

decRest == <<decision, d_inputs, d_results, last_recommendations>>

\* a worker calls save_buy_signal with a result that can be bought
SignalCall(t) ==
    /\ sig_worker[t].pc = "idle"
    /\ sig_calls < MaxCalls
    /\ sig_calls' = sig_calls + 1
    /\ \E code \in Stocks, score \in {buy_threshold * SCALE, (buy_threshold + 10) * SCALE},
          analysis_time \in 1..2 :
         sig_worker' = [sig_worker EXCEPT ![t] =
                           [pc |-> "read",
                            call |-> [stock_code |-> code, score |-> score,
                                      analysis_time |-> analysis_time]]]
    /\ UNCHANGED <<sig_last, trading_signals, decRest, offSigSave>>

\* its SELECTs
SignalRead(t) ==
    /\ sig_worker[t].pc = "read"
    /\ sig_worker' = [sig_worker EXCEPT ![t] =
                         [pc |-> "write", call |-> sig_worker[t].call,
                          seen |-> ReadSignals(trading_signals, sig_worker[t].call)]]
    /\ UNCHANGED <<sig_calls, sig_last, trading_signals, decRest, offSigSave>>

\* its writes, the commit or the return without one, and the close
SignalWrite(t) ==
    /\ sig_worker[t].pc = "write"
    /\ \E out \in {SignalOutcome(trading_signals, sig_worker[t].call, sig_worker[t].seen)} :
         /\ trading_signals' = out.signals
         /\ sig_last' = <<[call |-> sig_worker[t].call, seen |-> sig_worker[t].seen,
                           before |-> trading_signals,
                           returned |-> out.returned, branch |-> out.branch]>>
    /\ sig_worker' = [sig_worker EXCEPT ![t] = [pc |-> "idle"]]
    /\ UNCHANGED <<sig_calls, decRest, offSigSave>>

\* ----------------------- StockDecisionAnalyzer.realtime_monitor, the notices
IdleNot ==
    /\ n_monitor = [pc |-> "sleep", todo |-> {}, cycle |-> 0]
    /\ n_history = <<>>
    /\ n_notices = {}

\* the result a pool thread hands back: None, or a result that is can_buy or not
ResultChoices(t) ==
    { NoResult(t),
      [NoResult(t) EXCEPT !.kind = "result"],
      [NoResult(t) EXCEPT !.kind = "result", !.can_buy = TRUE, !.score = buy_threshold * SCALE] }

\* `stock_key not in last_recommendations or not last_recommendations[stock_key]`:
\* the dictionary only ever receives the value True
is_new_recommendation(recommendations, s) == s \notin recommendations

\* the head of a cycle inside a session: one future per stock
NoticeBegin ==
    /\ n_monitor.pc = "sleep"
    /\ n_monitor.cycle < MaxNoticeCycles
    /\ n_monitor' = [pc |-> "run", todo |-> Stocks, cycle |-> n_monitor.cycle + 1]
    /\ n_history' = Append(n_history, {})
    /\ UNCHANGED <<n_notices, decVars, offNot>>

\* one future completes: the thread saves a buy signal, and the loop handles
\* the result (notice, save_buy_signal, last_recommendations) when it is
\* can_buy; nothing is recorded for a result that is None or not can_buy
NoticeResult(s) ==
    /\ n_monitor.pc = "run"
    /\ s \in n_monitor.todo
    /\ \E result \in ResultChoices([cycle |-> n_monitor.cycle]) :
         /\ n_history' = [n_history EXCEPT ![n_monitor.cycle] =
                            IF result.can_buy THEN @ \cup {s} ELSE @]
         /\ n_notices' = IF result.kind = "result" /\ result.can_buy
                            /\ is_new_recommendation(last_recommendations, s)
                         THEN n_notices \cup {<<s, n_monitor.cycle>>} ELSE n_notices
         /\ trading_signals' = save_buy_signal(save_buy_signal(trading_signals, s, result), s, result)
         /\ last_recommendations' = IF result.kind = "result" /\ result.can_buy
                                    THEN last_recommendations \cup {s}
                                    ELSE last_recommendations
    /\ n_monitor' = [n_monitor EXCEPT !.todo = n_monitor.todo \ {s},
                                      !.pc = IF n_monitor.todo = {s} THEN "sleep" ELSE "run"]
    /\ UNCHANGED <<decision, d_inputs, d_results, offNot>>

\* ------------------------------------------------------ NewsAnalysisReceiver
NewsHashes == {"n1", "n2"}
max_retry_times == 10
latest_limit == 5

IdleRty ==
    /\ r_hot_news = <<>>
    /\ all_analyses = {}
    /\ processed_hashes = {}
    /\ retry_store = <<>>
    /\ r_main = "run"

Listed(sq, x) == \E i \in 1..Len(sq) : sq[i] = x

Without(f, h) == [x \in (DOMAIN f) \ {h} |-> f[x]]

\* the orders in which a dictionary of the given keys can be walked
Orders(S) == { sq \in [1..Cardinality(S) -> S] : \A x \in S : Listed(sq, x) }

\* save_retry_news: the key is deleted and written again from self.retry_news
save_retry_news(st) == [st EXCEPT !.store = st.retry]

\* add_news_to_retry: 1 for a hash not in the dictionary, one more otherwise,
\* with no reference to max_retry_times; then the dictionary is persisted
add_news_to_retry(st, h) ==
    save_retry_news([st EXCEPT !.retry =
        IF h \in DOMAIN st.retry THEN [st.retry EXCEPT ![h] = @ + 1]
        ELSE [x \in (DOMAIN st.retry) \cup {h} |-> IF x = h THEN 1 ELSE st.retry[x]]])

\* mark_news_as_processed: nothing for a hash already in the set; otherwise it
\* is added and, when it is in the dictionary, removed there and the dictionary
\* persisted (the set stays far below max_processed_hashes = 2000)
mark_news_as_processed(st, h) ==
    IF h \in st.processed THEN st
    ELSE IF h \in DOMAIN st.retry
    THEN save_retry_news([st EXCEPT !.processed = @ \cup {h}, !.retry = Without(@, h)])
    ELSE [st EXCEPT !.processed = @ \cup {h}]

\* get_news_content: the hash is looked up in the whole list
get_news_content(news, h) == Listed(news, h)

\* lines 361-383: the walk over list(self.retry_news.items()); a hash whose
\* content is gone is deleted from the dictionary in memory only
RECURSIVE LoadRetries(_, _, _, _, _)
LoadRetries(st, loaded, order, i, news) ==
    IF i > Len(order) THEN [st |-> st, retry_news_list |-> <<>>]
    ELSE LET h == order[i]
             retry_count == loaded[h]
             step == IF retry_count >= max_retry_times
                     THEN [st |-> mark_news_as_processed(st, h), item |-> <<>>]
                     ELSE IF get_news_content(news, h)
                     THEN [st |-> st, item |-> <<[hash |-> h, retry_count |-> retry_count]>>]
                     ELSE [st |-> [st EXCEPT !.retry = Without(@, h)], item |-> <<>>]
             rest == LoadRetries(step.st, loaded, order, i + 1, news)
         IN [st |-> rest.st, retry_news_list |-> step.item \o rest.retry_news_list]

\* get_latest_news: the first `limit` entries of the list, newest first (the
\* list is kept newest first, so the sort by datetime keeps its order); an
\* entry from here carries no retry_count, which news.get reads as 0
get_latest_news(news, limit) ==
    [i \in 1..Min2(limit, Len(news)) |-> [hash |-> news[i], retry_count |-> 0]]

\* lines 402-404: without any analysis every unprocessed news goes to the queue
RECURSIVE RetryAll(_, _, _)
RetryAll(st, news_to_process, i) ==
    IF i > Len(news_to_process) THEN st
    ELSE RetryAll(IF news_to_process[i].hash \notin st.processed
                  THEN add_news_to_retry(st, news_to_process[i].hash) ELSE st,
                  news_to_process, i + 1)

\* lines 415-466: the walk over news_to_process
RECURSIVE ProcessEach(_, _, _, _)
ProcessEach(st, news_to_process, i, analyses) ==
    IF i > Len(news_to_process) THEN st
    ELSE LET news_hash == news_to_process[i].hash
             retry_count == news_to_process[i].retry_count
         IN ProcessEach(
              IF news_hash \in st.processed THEN [st EXCEPT !.retry = Without(@, news_hash)]
              ELSE IF news_hash \notin analyses
              THEN IF retry_count < max_retry_times THEN add_news_to_retry(st, news_hash)
                   ELSE mark_news_as_processed(st, news_hash)
              ELSE mark_news_as_processed(st, news_hash),
              news_to_process, i + 1, analyses)

\* process_news_analysis: one cycle, from the two keys as loaded to the two
\* keys as it leaves them; `order` is the order of the loaded dictionary
process_news_analysis(store, processed, news, analyses, order) ==
    LET st0 == [retry |-> store, store |-> store, processed |-> processed]
        walk == LoadRetries(st0, store, order, 1, news)
        retry_news_list == walk.retry_news_list
        remaining_limit == Max2(1, latest_limit - Len(retry_news_list))
        latest_news == get_latest_news(news, remaining_limit)
        news_to_process == retry_news_list \o latest_news
    IN IF latest_news = <<>> /\ retry_news_list = <<>> THEN walk.st
       ELSE IF analyses = {} THEN RetryAll(walk.st, news_to_process, 1)
       ELSE save_retry_news(ProcessEach(walk.st, news_to_process, 1, analyses))

\* main: one pass of the loop
ProcessNewsAnalysis ==
    /\ r_main = "run"
    /\ r_main' = "sleep"
    /\ \E order \in Orders(DOMAIN retry_store) :
       \E st \in {process_news_analysis(retry_store, processed_hashes, r_hot_news,
                                        all_analyses, order)} :
         /\ retry_store' = st.store
         /\ processed_hashes' = st.processed
    /\ UNCHANGED <<r_hot_news, all_analyses, offRty>>

\* main: the wait before the next pass
MainSleeps ==
    /\ r_main = "sleep"
    /\ r_main' = "run"
    /\ UNCHANGED <<r_hot_news, all_analyses, processed_hashes, retry_store, offRty>>

\* the producer of stock:hot_news pushes a news item to the head of the list
HotNewsPublished(h) ==
    /\ ~Listed(r_hot_news, h)
    /\ r_hot_news' = <<h>> \o r_hot_news
    /\ UNCHANGED <<all_analyses, processed_hashes, retry_store, r_main, offRty>>

\* the oldest item leaves the list
HotNewsDropped ==
    /\ r_hot_news # <<>>
    /\ r_hot_news' = SubSeq(r_hot_news, 1, Len(r_hot_news) - 1)
    /\ UNCHANGED <<all_analyses, processed_hashes, retry_store, r_main, offRty>>

\* NewsStockAnalyzer stores the analysis of a listed news item
AnalysisStored(h) ==
    /\ Listed(r_hot_news, h)
    /\ h \notin all_analyses
    /\ all_analyses' = all_analyses \cup {h}
    /\ UNCHANGED <<r_hot_news, processed_hashes, retry_store, r_main, offRty>>

\* redis_cleaner.clear_sentiment_only: the analyses are deleted, the news kept
clear_sentiment_only ==
    /\ all_analyses # {}
    /\ all_analyses' = {}
    /\ UNCHANGED <<r_hot_news, processed_hashes, retry_store, r_main, offRty>>

\* --------------------------------------------------------- specification
\* what the tables of instrument A hold at start: minute samples and no
\* history, a short history, a full history
StoredChoices == {[hist |-> <<>>, rt |-> MinuteRows(MinSamples)],
                  [hist |-> RampHist(ShortHist, 1), rt |-> <<>>],
                  [hist |-> RampHist(MinSamples, 1), rt |-> <<>>]}

IdleSys ==
    /\ clock = [day |-> 0, wd |-> 4, slot |-> 1]
    /\ quote = [s \in Stocks |-> [time |-> 0, price |-> BasePrice, date |-> 0 - 1]]
    /\ moves = 0
    /\ requests = 0
    /\ config_file = [stocks |-> {"A", "B"}, mtime |-> 1]
    /\ edits = 0
    /\ config = config_file.stocks
    /\ config_last_modified = config_file.mtime
    /\ since_config_update = table_creation_cooldown
    /\ processed_stocks = config_file.stocks
    /\ tech_indicators_state = <<>>
    /\ last_init_date = NaN
    /\ hist = [s \in Stocks |-> <<>>]
    /\ rt = [s \in Stocks |-> <<>>]
    /\ tech = [s \in Stocks |-> [exists |-> FALSE, rows |-> <<>>]]
    /\ reload = [pc |-> "poll", previous |-> {}]
    /\ collect = [stocks |-> <<>>, i |-> 1]
    /\ monitor = [pc |-> "sleep", stocks |-> <<>>, i |-> 1]

\* the collector after construction, its tables as one of StoredChoices
InitStored ==
    /\ quote = [s \in Stocks |-> [time |-> 0, price |-> BasePrice, date |-> 0 - 1]]
    /\ moves = 0
    /\ requests = 0
    /\ config_file = [stocks |-> {"A", "B"}, mtime |-> 1]
    /\ edits = 0
    /\ config = config_file.stocks
    /\ config_last_modified = config_file.mtime
    /\ since_config_update = table_creation_cooldown
    /\ processed_stocks = config_file.stocks
    /\ tech_indicators_state = <<>>
    /\ last_init_date = NaN
    /\ \E p \in StoredChoices :
         /\ hist = [s \in Stocks |-> IF s = "A" THEN p.hist ELSE ZigHist(MinSamples)]
         /\ rt = [s \in Stocks |-> IF s = "A" THEN p.rt ELSE <<>>]
    /\ tech = [s \in Stocks |-> [exists |-> FALSE, rows |-> <<>>]]
    /\ reload = [pc |-> "poll", previous |-> {}]
    /\ collect = [stocks |-> <<>>, i |-> 1]
    /\ monitor = [pc |-> "sleep", stocks |-> <<>>, i |-> 1]
    /\ IdleEng
    /\ IdleFeed
    /\ IdleDec
    /\ IdleCor
    /\ IdleGpr
    /\ IdleAlm
    /\ IdleSco
    /\ IdleWai
    /\ IdleSig
    /\ IdleNot
    /\ IdleRty

\* a Friday or a Saturday, 09:20
InitSys ==
    /\ clock \in [day : {0}, wd : {4, 5}, slot : {1}]
    /\ InitStored

\* a Friday, 10:00
InitDecision ==
    /\ clock = [day |-> 0, wd |-> 4, slot |-> 2]
    /\ InitStored

\* the tick loops under a fixed configuration
NextTicks ==
    \/ \E s \in Stocks : MarketMove(s)
    \/ ClockAdvance
    \/ CollectAllBegin
    \/ CollectAllStep
    \/ MonitorBegin
    \/ MonitorStep

\* the configuration file changing under the running collection loop
NextConfig ==
    \/ EditConfig
    \/ SecondPasses
    \/ ReloadDetect
    \/ ReloadFinish
    \/ CollectAllBegin
    \/ CollectAllStep

\* one instrument's engine: a seed, then ticks
InitEngine ==
    /\ IdleSys
    /\ IdleFeed
    /\ IdleDec
    /\ IdleCor
    /\ IdleGpr
    /\ IdleAlm
    /\ IdleSco
    /\ IdleWai
    /\ IdleSig
    /\ IdleNot
    /\ IdleRty
    /\ e_series \in SeedSeries
    /\ e_seed = "none"
    /\ e_state = <<>>
    /\ e_snap = <<>>
    /\ e_ticks = 0
    /\ e_run = 0
    /\ e_dir = 0
    /\ e_turns = 0

NextEngine ==
    \/ EngineSeedCold
    \/ EngineSeedHistory
    \/ \E dlt \in {0 - 1, 0, 1} : EngineFeed(dlt)

\* the alert feed under concurrent save_alert calls
InitFeed ==
    /\ IdleSys
    /\ IdleEng
    /\ IdleDec
    /\ IdleCor
    /\ IdleGpr
    /\ IdleAlm
    /\ IdleSco
    /\ IdleWai
    /\ IdleSig
    /\ IdleNot
    /\ IdleRty
    /\ \E n \in {0, FeedKeep - 2} :
         /\ alert_log = [i \in 1..n |-> i]
         /\ feed = [i \in 1..n |-> n + 1 - i]
    /\ alerts = 0
    /\ writer = [w \in Writers |-> [pc |-> "idle", alert |-> 0]]

NextFeed ==
    \/ \E w \in Writers : SaveAlertInsert(w)
    \/ \E w \in Writers : SaveAlertPush(w)
    \/ \E w \in Writers : SaveAlertTrim(w)

\* the decision monitor reading what the collection loop writes
NextDecision ==
    \/ CollectAllBegin
    \/ CollectAllStep
    \/ DecisionBegin
    \/ \E s \in Stocks : DecisionAnalyze(s)

\* the correlator over a realtime table as the collectors create it (without the
\* columns the detector's query names) or with those columns
InitCorrelator ==
    /\ IdleSys
    /\ IdleEng
    /\ IdleFeed
    /\ IdleDec
    /\ IdleGpr
    /\ IdleAlm
    /\ IdleSco
    /\ IdleWai
    /\ IdleSig
    /\ IdleNot
    /\ IdleRty
    /\ c_columns \in BOOLEAN
    /\ \E d \in DataChoices : c_rows = [s \in Stocks |-> IF s = "A" THEN d ELSE QuietRows]
    /\ hot_news = <<>>
    /\ thresholds = [price_change_threshold |-> 300, min_correlation_score |-> 3000]
    /\ price_anomalies = <<>>
    /\ price_news_correlation = <<>>
    /\ c_found = <<>>
    /\ scans = 0

NextCorrelator ==
    \/ Configure
    \/ NewsArrives
    \/ \E s \in Stocks : analyze_stock(s)

\* the predictor run over history tables of different sizes
InitPredictor ==
    /\ IdleSys
    /\ IdleEng
    /\ IdleFeed
    /\ IdleDec
    /\ IdleCor
    /\ IdleAlm
    /\ IdleSco
    /\ IdleWai
    /\ IdleSig
    /\ IdleNot
    /\ IdleRty
    /\ g_history \in [Stocks -> HistoryChoices]
    /\ stock_price_predictions = <<>>
    /\ g_today = 0
    /\ g_loop = [pc |-> "idle", i |-> 1]
    /\ g_last = <<>>
    /\ g_runs = 0

NextPredictor ==
    \/ NextIssueDay
    \/ PredictAllBegin
    \/ PredictAllStep

\* the alert system at 23:00 over stores of different contents
InitAlerts ==
    /\ IdleSys
    /\ IdleEng
    /\ IdleFeed
    /\ IdleDec
    /\ IdleCor
    /\ IdleGpr
    /\ IdleSco
    /\ IdleWai
    /\ IdleSig
    /\ IdleNot
    /\ IdleRty
    /\ m_columns \in BOOLEAN
    /\ \E scene \in AlertScenes :
         /\ m_realtime = [s \in Stocks |-> IF s = "A" THEN scene.realtime
                                           ELSE AlertRows(FP(BasePrice), 0, 100)]
         /\ m_sentiment = scene.sentiment
         /\ m_predictions = scene.predictions
    /\ \E t \in TechnicalChoices :
         m_technical = [s \in Stocks |-> IF s = "A" THEN t ELSE [exists |-> FALSE, rows |-> <<>>]]
    /\ m_now = 23
    /\ m_runs = [s \in Stocks |-> <<>>]
    /\ m_checks = 0
    /\ m_arrivals = 0

NextAlerts ==
    \/ \E s \in Stocks : AlertAnalyzeStock(s)
    \/ AlertHourPasses
    \/ RealtimeRowArrives("A")

InitScore ==
    /\ IdleSys
    /\ IdleEng
    /\ IdleFeed
    /\ IdleDec
    /\ IdleCor
    /\ IdleGpr
    /\ IdleAlm
    /\ IdleSco
    /\ IdleWai
    /\ IdleSig
    /\ IdleNot
    /\ IdleRty

NextScore ==
    \/ ScoreRealtime
    \/ ScoreDaily
    \/ ScoreFundamental
    \/ ScoreCombine

\* the monitor started on any day of the week at one of WaitTimes
InitWait ==
    /\ IdleSys
    /\ IdleEng
    /\ IdleFeed
    /\ IdleDec
    /\ IdleCor
    /\ IdleGpr
    /\ IdleAlm
    /\ IdleSco
    /\ IdleSig
    /\ IdleNot
    /\ IdleRty
    /\ w_now \in [wd : 0..6, tod : WaitTimes]
    /\ w_wait = NaN
    /\ w_sleeps = 0

NextWait ==
    \/ WaitReport
    \/ WaitSleep

\* the pool at work over a table that holds the unbought signals of four or
\* of five other instruments
InitSignals ==
    /\ IdleSys
    /\ IdleEng
    /\ IdleFeed
    /\ IdleCor
    /\ IdleGpr
    /\ IdleAlm
    /\ IdleSco
    /\ IdleWai
    /\ IdleSig
    /\ IdleNot
    /\ IdleRty
    /\ decision = [pc |-> "sleep", todo |-> {}, cycle |-> 0]
    /\ d_inputs = [s \in Stocks |-> <<>>]
    /\ d_results = [s \in Stocks |-> <<>>]
    /\ last_recommendations = {}
    /\ \E n \in {max_stocks - 1, max_stocks} : trading_signals = HeldSignals(n)

NextSignals ==
    \/ \E t \in Workers : SignalCall(t)
    \/ \E t \in Workers : SignalRead(t)
    \/ \E t \in Workers : SignalWrite(t)

\* the monitor loop from its start, within a session
InitNotices ==
    /\ IdleSys
    /\ IdleEng
    /\ IdleFeed
    /\ IdleDec
    /\ IdleCor
    /\ IdleGpr
    /\ IdleAlm
    /\ IdleSco
    /\ IdleWai
    /\ IdleSig
    /\ IdleNot
    /\ IdleRty

NextNotices ==
    \/ NoticeBegin
    \/ \E s \in Stocks : NoticeResult(s)

\* the receiver over empty keys
InitRetry ==
    /\ IdleSys
    /\ IdleEng
    /\ IdleFeed
    /\ IdleDec
    /\ IdleCor
    /\ IdleGpr
    /\ IdleAlm
    /\ IdleSco
    /\ IdleWai
    /\ IdleSig
    /\ IdleNot
    /\ IdleRty

NextRetry ==
    \/ ProcessNewsAnalysis
    \/ MainSleeps
    \/ \E h \in NewsHashes : HotNewsPublished(h)
    \/ HotNewsDropped
    \/ \E h \in NewsHashes : AnalysisStored(h)
    \/ clear_sentiment_only

vars == <<sysVars, engVars, feedVars, decVars, corVars, gprVars, almVars, scoVars, waiVars, sigVars, notVars, rtyVars>>

SpecFeed == InitFeed /\ [][NextFeed]_vars
SpecDecision == InitDecision /\ [][NextDecision]_vars

SpecTicks == InitSys /\ [][NextTicks]_vars
SpecConfig == InitSys /\ [][NextConfig]_vars
SpecEngine == InitEngine /\ [][NextEngine]_vars
SpecCorrelator == InitCorrelator /\ [][NextCorrelator]_vars
SpecPredictor == InitPredictor /\ [][NextPredictor]_vars
SpecAlerts == InitAlerts /\ [][NextAlerts]_vars
SpecScore == InitScore /\ [][NextScore]_vars
SpecWait == InitWait /\ [][NextWait]_vars
SpecSignals == InitSignals /\ [][NextSignals]_vars
SpecNotices == InitNotices /\ [][NextNotices]_vars
SpecRetry == InitRetry /\ [][NextRetry]_vars
\* the loop of main keeps running process_news_analysis
SpecRetryFair == SpecRetry /\ WF_vars(ProcessNewsAnalysis) /\ WF_vars(MainSleeps)

\* ------------------------------------------------------------------ claims
\* tolerance of a comparison of two indicator values: 0.01
Tol == SCALE \div 100

Near(a, b) ==
    \/ IsNaN(a) /\ IsNaN(b)
    \/ ~IsNaN(a) /\ ~IsNaN(b) /\ Abs(Val(a) - Val(b)) <= Tol

\* C1: at the last sample, the snapshot of the incremental update equals, within
\* the tolerance, the last row of the full recompute over the whole series
\* (MACD, Signal, RSI, both Bollinger bands, MA5, MA10).
C1_WarmEqualsCold ==
    e_snap # <<>> =>
        \E c \in {ColdFilled(ColdCols(e_series), Len(e_series))} :
            /\ Near(Some(e_snap[1].MACD), Some(c.MACD))
            /\ Near(Some(e_snap[1].Signal), Some(c.Signal))
            /\ Near(e_snap[1].RSI, c.RSI)
            /\ Near(e_snap[1].Upper_Band, c.Upper_Band)
            /\ Near(e_snap[1].Lower_Band, c.Lower_Band)
            /\ Near(e_snap[1].MA5, c.MA5)
            /\ Near(e_snap[1].MA10, c.MA10)

\* C2: after rsi_period consecutive ticks none of which is lower than its
\* predecessor, the RSI of the snapshot is exactly 100.
C2_RsiHundredAfterRun ==
    e_run >= rsi_period => e_snap[1].RSI = Some(100 * SCALE)

\* C3: a step adds a snapshot row for an instrument only when at least
\* MinSamples samples (minute samples or daily history) were there to seed its
\* state; with fewer, the tick writes no row.
C3_RowNeedsThirtySamples ==
    [][\A s \in Stocks :
          Len(tech'[s].rows) > Len(tech[s].rows) =>
              Len(rt'[s]) >= MinSamples \/ Len(hist[s]) >= MinSamples]_vars

\* C6: prices are positive, so a mean of 0 in a state is the placeholder of a
\* value that could not be computed.  No state holds such a placeholder (20-period
\* mean, entries of the MA5 / MA10 buffers) and no snapshot row has a band
\* derived from one.
C6_NoPlaceholderZero ==
    /\ \A s \in DOMAIN tech_indicators_state :
          /\ tech_indicators_state[s].sma20 > 0
          /\ \A i \in 1..Len(tech_indicators_state[s].ma5_values) :
                tech_indicators_state[s].ma5_values[i] > 0
          /\ \A i \in 1..Len(tech_indicators_state[s].ma10_values) :
                tech_indicators_state[s].ma10_values[i] > 0
    /\ \A s \in Stocks : \A i \in 1..Len(tech[s].rows) : tech[s].rows[i].Upper_Band > 0

\* C7: while the trading-session predicate is false (weekend, or a time outside
\* the two sessions) no step of a polling loop asks the source for a tick or
\* touches the indicator state.
InSession == clock.wd < 5 /\ is_trading_time(Tod(clock))

C7_NoFetchOutsideSession ==
    [][~InSession =>
          requests' = requests /\ tech_indicators_state' = tech_indicators_state]_vars

\* C8: a cycle of the collection loop decides with the instrument set it read
\* when it began: an instrument of that list is skipped only for the cooldown
\* of a not yet processed instrument, never because the file changed meanwhile.
C8_CycleKeepsItsSet ==
    [][(collect' # collect /\ collect.i <= Len(collect.stocks)
          /\ requests < MaxRequests /\ requests' = requests) =>
          (since_config_update < table_creation_cooldown
             /\ collect.stocks[collect.i] \notin processed_stocks)]_vars

\* the step is a tick of instrument a that reached the source
Processing(a) ==
    /\ requests' = requests + 1
    /\ \/ collect' # collect /\ collect.i <= Len(collect.stocks) /\ collect.stocks[collect.i] = a
       \/ monitor' # monitor /\ monitor.pc = "run" /\ monitor.stocks[monitor.i] = a

\* the state entry of instrument b (<<>> = no entry)
Entry(states, b) == IF b \in DOMAIN states THEN <<states[b]>> ELSE <<>>

C10_FeedBounded == Len(feed) <= FeedKeep

\* C4: a failure in one analysis step of an instrument does not discard the
\* results of its other analyses (a daily or fundamental analysis that gave a
\* score is in the instrument's result), and when the cycle is over every
\* instrument of the cycle has been analysed.
C4_FailureStaysLocal ==
    /\ \A s \in Stocks :
          d_results[s] # <<>> =>
              /\ ~IsNaN(d_inputs[s][1].daily_analysis) =>
                    d_results[s][1].daily_analysis = d_inputs[s][1].daily_analysis
              /\ ~IsNaN(d_inputs[s][1].fundamental_analysis) =>
                    d_results[s][1].fundamental_analysis = d_inputs[s][1].fundamental_analysis
    /\ decision.pc = "sleep" /\ decision.cycle > 0 =>
          \A s \in config_file.stocks : d_results[s] # <<>>

\* the rationale strings of the moving-average rules
MaReasons == {"ma5_above_ma10", "ma5_below_ma10", "ma5_rising", "ma5_falling"}

\* C5: when the newest snapshot row has an undefined MA5 or MA10, the analysis
\* still returns a result with a realtime sub-score and a composite decision,
\* and none of its reasons comes from a moving-average rule.
C5_UndefinedMaIsNoSignal ==
    \A s \in Stocks :
        (/\ d_results[s] # <<>>
         /\ d_inputs[s][1].latest # <<>>
         /\ IsNaN(d_inputs[s][1].latest[1].MA5) \/ IsNaN(d_inputs[s][1].latest[1].MA10)) =>
            /\ d_results[s][1].kind = "result"
            /\ d_results[s][1].realtime_analysis.kind = "ok"
            /\ \A i \in 1..Len(d_results[s][1].realtime_analysis.reasons) :
                  d_results[s][1].realtime_analysis.reasons[i] \notin MaReasons

\* an alert whose save_alert call is between its commit and its lpush
InFlight(a) == \E w \in Writers : writer[w].pc = "committed" /\ writer[w].alert = a

InSeq(sq, x) == \E i \in 1..Len(sq) : sq[i] = x

\* C11: every alert in the feed is in the alert log, and every alert that
\* save_alert appended to the log (and whose call is over or past its push) is
\* in the feed, also when one of the two stores failed during the call.
C11_LogAndFeedAgree ==
    /\ \A i \in 1..Len(feed) : InSeq(alert_log, feed[i])
    /\ \A i \in 1..Len(alert_log) :
          (alert_log[i] > FeedKeep /\ ~InFlight(alert_log[i])) => InSeq(feed, alert_log[i])

\* the rows stored for one timestamp
RowsAt(rows, t) == {i \in 1..Len(rows) : rows[i].time = t}

\* C12: a tick whose timestamp is already stored for the instrument leaves one
\* sample row and one indicator row for that timestamp, and both rows hold the
\* price of the tick just processed.
C12_DuplicateTickOverwrites ==
    [][\A a \in Stocks :
          (Processing(a) /\ HasTime(rt[a], quote[a].time) /\ tech'[a] # tech[a]) =>
              /\ Cardinality(RowsAt(rt'[a], quote[a].time)) = 1
              /\ \A i \in RowsAt(rt'[a], quote[a].time) : rt'[a][i].price = quote[a].price
              /\ Cardinality(RowsAt(tech'[a].rows, quote[a].time)) = 1
              /\ \A i \in RowsAt(tech'[a].rows, quote[a].time) :
                    tech'[a].rows[i].price = Dec2(FP(quote[a].price))]_vars

\* C13: the anomaly store holds at most one row per (instrument, anomaly
\* timestamp), however many correlator cycles ran over the same rows.
C13_OneAnomalyPerKey ==
    \A i, j \in 1..Len(price_anomalies) :
        (/\ price_anomalies[i].stock_code = price_anomalies[j].stock_code
         /\ price_anomalies[i].anomaly_time = price_anomalies[j].anomaly_time) => i = j

\* what the rule of the detector flags among the ScanRows newest rows
Qualifies(data, threshold, i) ==
    \/ Abs(data[i].change_pct) >= threshold
    \/ /\ Len(data) > ScanRows
       /\ 10 * data[i].volume * (Len(data) - ScanRows)
             >= volume_spike_threshold * SumVolume(data, ScanRows + 1)
       /\ Abs(data[i].change_pct) >= spike_price_floor

Qualifying(data, threshold) ==
    {i \in 1..Min2(ScanRows, Len(data)) : Qualifies(data, threshold, i)}

\* C15: the detector returns exactly one anomaly for each qualifying row among
\* the ScanRows newest and none for any other row, typed surge when the signed
\* change of the row is positive and plunge otherwise.
C15_FlaggedIffQualifies ==
    c_found # <<>> =>
        \E data \in {c_rows[c_found[1].stock_code]}, found \in {c_found[1].anomalies} :
            /\ \A i \in Qualifying(data, c_found[1].threshold) :
                  Cardinality({k \in 1..Len(found) : found[k].anomaly_time = data[i].time}) = 1
            /\ \A k \in 1..Len(found) :
                  \E i \in Qualifying(data, c_found[1].threshold) :
                      /\ found[k].anomaly_time = data[i].time
                      /\ found[k].anomaly_type
                            = IF data[i].change_pct > 0 THEN "surge" ELSE "plunge"

\* the timestamps of the anomalies of a detector result
TimesOf(found) == {found[k].anomaly_time : k \in 1..Len(found)}

DetectedAt(s, threshold) == detect_price_anomalies(c_columns, s, c_rows[s], threshold)

\* C16: over the same rows, the anomalies returned under a higher
\* price_change_threshold are a subset of (and so no more than) the anomalies
\* returned under a lower one; stated for the last scan against every other
\* threshold.
C16_ThresholdMonotone ==
    c_found # <<>> =>
        \A t \in PriceThresholds :
            \E other \in {DetectedAt(c_found[1].stock_code, t)} :
                /\ t >= c_found[1].threshold =>
                      /\ TimesOf(other) \subseteq TimesOf(c_found[1].anomalies)
                      /\ Len(other) <= Len(c_found[1].anomalies)
                /\ t <= c_found[1].threshold =>
                      /\ TimesOf(c_found[1].anomalies) \subseteq TimesOf(other)
                      /\ Len(c_found[1].anomalies) <= Len(other)

\* a scan that flagged three rows, of which a higher threshold keeps only two
C16_HigherThresholdDropsOne ==
    /\ c_found # <<>>
    /\ Len(c_found[1].anomalies) = 3
    /\ \E t \in PriceThresholds :
          /\ t > c_found[1].threshold
          /\ Len(DetectedAt(c_found[1].stock_code, t)) = 2

\* the correlation rows a step added
AddedRows == SubSeq(price_news_correlation', Len(price_news_correlation) + 1,
                    Len(price_news_correlation'))

\* the candidates the step scored: every news item in the window of every
\* anomaly it found
CandidatesOf(anomaly, related_news) ==
    {[anomaly_time |-> anomaly.anomaly_time,
      scored |-> calculate_correlation_score(anomaly, related_news[i])]
       : i \in 1..Len(related_news)}

Candidates ==
    UNION {CandidatesOf(c_found'[1].anomalies[k],
                        retrieve_related_news(c_found'[1].anomalies[k].anomaly_time, hot_news, 1))
             : k \in 1..Len(c_found'[1].anomalies)}

\* C17: whatever min_correlation_score is set to, every correlation row that a
\* cycle persists has a score in [0, 1] that is at least min_correlation_score
\* and a classification other than unrelated, and every candidate scored below
\* min_correlation_score is classified unrelated and is not persisted.
C17_PersistedMeetMinimum ==
    [][scans' = scans + 1 =>
          /\ \A k \in 1..Len(AddedRows) :
                /\ 0 <= AddedRows[k].correlation_score
                /\ AddedRows[k].correlation_score <= SCALE
                /\ AddedRows[k].correlation_score >= thresholds.min_correlation_score
                /\ AddedRows[k].correlation_type # "unrelated"
          /\ \A c \in Candidates :
                c.scored.correlation_score < thresholds.min_correlation_score =>
                    /\ c.scored.correlation_type = "unrelated"
                    /\ \A k \in 1..Len(AddedRows) :
                          \/ AddedRows[k].news # c.scored.news_item.news
                          \/ AddedRows[k].anomaly_time # c.anomaly_time]_vars

\* C18: a persisted correlation whose news is earlier than the anomaly, by
\* however little, is classified cause (score >= 0.6) or potential_cause
\* (score >= 0.3); one whose news is later is classified reaction or
\* potential_reaction.
C18_EarlierIsCause ==
    \A k \in 1..Len(price_news_correlation) :
        \E r \in {price_news_correlation[k]} :
            /\ (r.news_at < r.anomaly_time /\ r.correlation_score >= potential_score) =>
                  r.correlation_type = IF r.correlation_score >= cause_score
                                       THEN "cause" ELSE "potential_cause"
            /\ (r.news_at > r.anomaly_time /\ r.correlation_score >= potential_score) =>
                  r.correlation_type = IF r.correlation_score >= cause_score
                                       THEN "reaction" ELSE "potential_reaction"

\* the cap a caller selects for the correlations kept per anomaly (the value is
\* the specification's: analyze_stock takes no such parameter)
RetainCap == 2

RowsOfAnomaly(id) ==
    {k \in 1..Len(price_news_correlation) : price_news_correlation[k].anomaly_id = id}

\* C19: for each anomaly the correlation rows persisted are at most RetainCap.
C19_AtMostCapPerAnomaly ==
    \A a \in 1..Len(price_anomalies) :
        Cardinality(RowsOfAnomaly(price_anomalies[a].id)) <= RetainCap

SameTriple(r, q) ==
    /\ r.stock_code = q.stock_code
    /\ r.prediction_date = q.prediction_date
    /\ r.target_date = q.target_date

\* C14: the forecast store holds at most one row per (instrument, issue date,
\* target date), and after a save_predictions call that committed, the row of
\* each triple it issued holds the point forecast, bounds and standard
\* deviation of that call.
C14_OneForecastPerTriple ==
    /\ \A i, j \in 1..Len(stock_price_predictions) :
          SameTriple(stock_price_predictions[i], stock_price_predictions[j]) => i = j
    /\ (g_last # <<>> /\ g_last[1].outcome = "saved") =>
          \A d \in 1..Len(g_last[1].predictions) :
              \E i \in 1..Len(stock_price_predictions) :
                  stock_price_predictions[i] = g_last[1].predictions[d]

\* the second run of a day committed forecasts for B, every one of them for a
\* triple the first run had stored, and the rows of B hold the second run's values
C14_ReissuedOverwrote ==
    /\ g_last # <<>>
    /\ g_last[1].outcome = "saved"
    /\ g_last[1].updated = prediction_days
    /\ g_runs = 2
    /\ g_loop.pc = "idle"
    /\ g_today = 0
    /\ \A i \in 1..Len(stock_price_predictions) :
          stock_price_predictions[i].stock_code = "B" =>
              stock_price_predictions[i].predicted_price = (BasePrice + 1) * SCALE
    /\ g_last[1].stock_code = "B"
    /\ g_last[1].predictions[1].predicted_price = (BasePrice + 1) * SCALE

\* fewer than min_training_rows usable samples, or no history table
Insufficient(h) == ~h.exists \/ h.rows < min_training_rows \/ h.complete < min_training_rows

\* C20: a forecast for an instrument with fewer than min_training_rows usable
\* samples, or without a history table, ends with the insufficient-data
\* outcome: nothing is raised, the forecast store is unchanged, and the loop
\* goes on to the next instrument.
C20_InsufficientDataIsQuiet ==
    [][(g_loop.pc = "run" /\ g_last' # g_last
          /\ Insufficient(g_history[StockOrder[g_loop.i]])) =>
          /\ g_last'[1].stock_code = StockOrder[g_loop.i]
          /\ g_last'[1].outcome = "none"
          /\ g_last'[1].predictions = <<>>
          /\ stock_price_predictions' = stock_price_predictions
          /\ g_loop' = IF g_loop.i = Len(StockOrder) THEN [pc |-> "idle", i |-> 1]
                       ELSE [pc |-> "run", i |-> g_loop.i + 1]]_vars

\* A has too few samples and got nothing; B, after it in the same run, was
\* forecast and stored
C20_NextInstrumentForecast ==
    /\ Insufficient(g_history["A"])
    /\ g_history["A"].exists
    /\ g_runs = 1
    /\ g_last # <<>>
    /\ g_last[1].stock_code = "B"
    /\ g_last[1].outcome = "saved"
    /\ Len(stock_price_predictions) = prediction_days
    /\ \A i \in 1..Len(stock_price_predictions) : stock_price_predictions[i].stock_code = "B"

\* the alerts of a run that the forecast-deviation check raised
GprAlertsOf(run) ==
    SelectSeq(run.alerts, LAMBDA a : a.type \in {"GPR_DEVIATION_UPPER", "GPR_DEVIATION_LOWER",
                                                 "GPR_DEVIATION_CRITICAL"})

\* the run of instrument s read a price outside the interval of the latest
\* forecast for its day
OutsideInterval(s, run) ==
    LET data == run.inputs[2]
        predictions == run.inputs[5]
        today == run.now \div 24
    IN /\ predictions.exists
       /\ data # <<>>
       /\ \E i \in TodaysPrediction(predictions.rows, s, today) :
            \/ data[1].current_price > predictions.rows[i].price_upper_bound
            \/ data[1].current_price < predictions.rows[i].price_lower_bound

\* the severity the deviation of the run's price from the forecast asks for
SeverityFor(s, run) ==
    LET p == run.inputs[5].rows[Only(TodaysPrediction(run.inputs[5].rows, s, run.now \div 24))]
    IN IF 100 * Abs(run.inputs[2][1].current_price - p.predicted_price)
             >= alert_thresholds.gpr_deviation_critical * p.predicted_price
       THEN "CRITICAL" ELSE "WARNING"

\* C21: whenever the current price lies outside the latest forecast interval for
\* today, the forecast-deviation check fires one alert, CRITICAL when the price
\* deviates from the forecast by 10% or more and WARNING when by less
C21_OutsideIntervalSeverity ==
    \A s \in Stocks : \A k \in 1..Len(m_runs[s]) :
        OutsideInterval(s, m_runs[s][k])
            => /\ Len(GprAlertsOf(m_runs[s][k])) = 1
               /\ GprAlertsOf(m_runs[s][k])[1].level = SeverityFor(s, m_runs[s][k])

\* MACD - Signal of a stored row
MacdDiff(row) == Val(row.MACD) - Val(row.Signal)

\* the run raised an alert of the type
Raised(run, type) == \E i \in 1..Len(run.alerts) : run.alerts[i].type = type

\* C24: the technical check fires MACD_GOLDEN_CROSS exactly when MACD - Signal is
\* negative at the previous sample and positive at the latest, and
\* MACD_DEATH_CROSS exactly when it is positive at the previous sample and
\* negative at the latest, whatever the values (a previous MACD or Signal of 0
\* included)
C24_CrossOnSignChange ==
    \A s \in Stocks : \A k \in 1..Len(m_runs[s]) :
        LET run == m_runs[s][k]
            rows == run.inputs[3].rows
        IN (run.inputs[3].exists /\ Len(rows) >= 2)
              => /\ Raised(run, "MACD_GOLDEN_CROSS")
                      <=> (MacdDiff(rows[2]) < 0 /\ MacdDiff(rows[1]) > 0)
                 /\ Raised(run, "MACD_DEATH_CROSS")
                      <=> (MacdDiff(rows[2]) > 0 /\ MacdDiff(rows[1]) < 0)

WeightedMean(sub) ==
    LET rs == IF sub.realtime.kind = "ok" THEN <<4, sub.realtime.score>> ELSE <<0, 0>>
        ds == IF ~IsNaN(sub.daily) THEN <<3, Val(sub.daily)>> ELSE <<0, 0>>
        fs == IF ~IsNaN(sub.fundamental) THEN <<3, Val(sub.fundamental)>> ELSE <<0, 0>>
    IN IF rs[1] + ds[1] + fs[1] = 0 THEN 0
       ELSE ((rs[1] * rs[2] + ds[1] * ds[2] + fs[1] * fs[2]) * SCALE) \div (rs[1] + ds[1] + fs[1])

\* C23: whatever sub-scores are available and whatever their rules added, each
\* sub-score and the composite score lie in [0, 100], and the composite is the
\* 0.4 / 0.3 / 0.3 weighted mean renormalised over the sub-scores present
C23_ScoresWithinRange ==
    /\ s_sub.realtime.kind = "ok" => s_sub.realtime.score \in 0..100
    /\ ~IsNaN(s_sub.daily) => Val(s_sub.daily) \in 0..100
    /\ ~IsNaN(s_sub.fundamental) => Val(s_sub.fundamental) \in 0..100
    /\ ~IsNaN(s_final)
          => /\ Val(s_final).score >= 0
             /\ Val(s_final).score <= 100 * SCALE
             /\ Val(s_final).score = WeightedMean(s_sub)

\* a composite of two sub-scores, the realtime analysis being absent, the daily
\* rules having added more than the limit leaves room for and the fundamental
\* rules having taken away
C23_ClampedAndRenormalised ==
    /\ ~IsNaN(s_final)
    /\ s_sub.realtime.kind = "None"
    /\ ~IsNaN(s_adj.daily) /\ Val(s_adj.daily) > 100 - base_score
    /\ Val(s_sub.daily) = 100
    /\ ~IsNaN(s_adj.fundamental) /\ Val(s_adj.fundamental) < 0
    /\ Val(s_final).score = (100 + Val(s_sub.fundamental)) * (SCALE \div 2)

\* the half seconds from now to each later start of a session on a weekday
SessionStartsAfter(now) ==
    {p[1] * DayLength + p[2] - now.tod :
        p \in {q \in (0..7) \X {morning_start, afternoon_start} :
                  /\ (now.wd + q[1]) % 7 < 5
                  /\ q[1] * DayLength + q[2] > now.tod}}

\* the half seconds to the next of them
UntilNextSession(now) ==
    CHOOSE w \in SessionStartsAfter(now) : \A v \in SessionStartsAfter(now) : w <= v

\* C25: outside the sessions get_next_trading_time_wait returns the whole
\* seconds until the start of the next trading session, 09:30 or 13:00 on a
\* weekday, on every day of the week and at every time of day
C25_WaitReachesNextSession ==
    ~IsNaN(w_wait)
        => /\ 2 * Val(w_wait) <= UntilNextSession(w_now)
           /\ UntilNextSession(w_now) < 2 * Val(w_wait) + 2

\* C26: after any sequence of save_buy_signal calls, concurrent ones included,
\* at most max_stocks distinct instruments hold an unbought trading signal
C26_AtMostMaxStocksHold == Cardinality(Holders(trading_signals)) <= max_stocks

\* C27: a call that met the table at the cap (the table unchanged between its
\* reads and its writes), for a new instrument scoring above the lowest
\* unbought signal, and returned True, leaves the new signal in the table and
\* the replaced lowest signal out of it
C27_ReplacementIsDurable ==
    \A k \in 1..Len(sig_last) :
        LET last == sig_last[k]
        IN (/\ last.returned
            /\ last.seen = ReadSignals(last.before, last.call)
            /\ ~last.seen.result
            /\ last.seen.stock_count >= max_stocks
            /\ ~last.seen.exists_result
            /\ Val(last.seen.lowest_signal).score < last.call.score)
              => /\ HasSignal(trading_signals, last.call.stock_code, last.call.analysis_time)
                 /\ ~InSeq(trading_signals, Val(last.seen.lowest_signal))

\* C28: in every completed cycle of the monitor loop, each instrument that is can_buy in
\* the cycle and was not can_buy in the preceding cycle has a new-buy-signal notice of
\* that cycle (the first cycle has no preceding one)
C28_NoticeOnEveryRequalification ==
    \A c \in 1..Len(n_history) :
        (c < n_monitor.cycle \/ n_monitor.pc = "sleep")
          => \A s \in n_history[c] :
                (c = 1 \/ s \notin n_history[c - 1]) => <<s, c>> \in n_notices

\* C29: the retry count recorded for a news hash, in the persisted retry queue, never
\* exceeds max_retry_times
C29_RetryCountWithinMax ==
    \A h \in DOMAIN retry_store : retry_store[h] <= max_retry_times

\* C30: a news hash in the persisted retry queue eventually is not in it, while the loop
\* keeps running process_news_analysis
C30_EveryRetryLeaves ==
    \A h \in NewsHashes : (h \in DOMAIN retry_store) ~> (h \notin DOMAIN retry_store)

====
